---------------------------- MODULE Spec2Model ----------------------------
(***************************************************************************)
(* A model of the geometric algebra code generator: signed basis elements  *)
(* and their product (algebra.rs), the class registry (algebra.rs), the    *)
(* expression simplifier and the operation synthesiser (compile.rs) and    *)
(* the derivation driver (main.rs).                                        *)
(***************************************************************************)
EXTENDS Integers, Sequences, FiniteSets, TLC

VARIABLES
    generator_squares,   \* GeometricAlgebra::generator_squares
    el_a, el_b, el_c,    \* operands handed to BasisElement::product
    results,             \* what the product calls returned
    apc,                 \* position of the algebra caller
    classes,             \* MultiVectorClassRegistry::classes
    index_by_signature,  \* MultiVectorClassRegistry::index_by_signature
    registered,          \* the classes handed to register, in call order
    looked,              \* the last call of get: its signature and its answer
    expression,          \* the tree handed to simplify_and_legalize
    simplified,          \* the tree it returned
    spc,                 \* position of the simplifier caller
    declared,            \* the classes of the configuration string, in order
    involutions,         \* main: Involution::involutions(&algebra)
    products,            \* main: Product::products(&algebra)
    dpc,                 \* position of main in its loops
    emitted,             \* the nodes the emitter has written, in order
    emitted_again,       \* the nodes a second run on the same configuration has written
    single_trait_implementations,  \* of the class_a at hand: name -> node
    inner_trait_implementations,   \* of the (class_a, class_b) at hand: name -> node
    pair_trait_implementations,    \* of the class_a at hand: class_b name -> its map
    trait_implementations,         \* class_a name -> its single and pair maps
    last,                \* the synthesiser call main made last
    table_element,       \* the element handed to the involution tables and to dual
    applied,             \* what one and two applications returned
    tpc,                 \* position of the table caller
    element_name,        \* the element name handed to BasisElement::parse, its characters
    parsed,              \* whether parse aborted, and the element it returned
    ppc,                 \* position of the parse caller
    machine              \* the execution of a derived body: variables, statements left, result

algebraVars == <<generator_squares, el_a, el_b, el_c, results, apc>>
registryVars == <<classes, index_by_signature, registered, looked>>
simplifierVars == <<expression, simplified, spc>>

driverVars == <<declared, involutions, products, dpc, emitted, emitted_again,
                single_trait_implementations,
                inner_trait_implementations, pair_trait_implementations,
                trait_implementations, last>>

tableVars == <<table_element, applied, tpc>>

parseVars == <<element_name, parsed, ppc>>

machineVars == <<machine>>

callerVars == <<tableVars, parseVars, machineVars>>

vars == <<algebraVars, registryVars, simplifierVars, driverVars, callerVars>>

---------------------------------------------------------------------------
(* Bounds *)

MaxGenerators == 3
MaxClasses == 3
MaxOps == 2
MaxLaneValue == 2

---------------------------------------------------------------------------
(* BasisElementIndex = u16 and its bit operations *)

BitWidth == 16

IndexMax == (2 ^ BitWidth) - 1

RECURSIVE BitsFrom(_, _)
BitsFrom(v, i) ==
    IF v = 0 THEN {}
    ELSE (IF v % 2 = 1 THEN {i} ELSE {}) \cup BitsFrom(v \div 2, i + 1)

\* the positions of the set bits of v
Bits(v) == BitsFrom(v, 0)

RECURSIVE BitAnd(_, _)
BitAnd(v, w) ==
    IF v = 0 \/ w = 0 THEN 0
    ELSE ((v % 2) * (w % 2)) + 2 * BitAnd(v \div 2, w \div 2)

RECURSIVE BitXor(_, _)
BitXor(v, w) ==
    IF v = 0 THEN w
    ELSE IF w = 0 THEN v
    ELSE ((v + w) % 2) + 2 * BitXor(v \div 2, w \div 2)

BitOr(v, w) == BitXor(BitXor(v, w), BitAnd(v, w))
BitNot(v) == IndexMax - v
\* BasisElementIndex::MAX << k, truncated to the width
MaxShl(k) == IF k >= BitWidth THEN 0 ELSE IndexMax - ((2 ^ k) - 1)
\* (1 << k) - 1
LowMask(k) == (2 ^ k) - 1

RECURSIVE count_ones(_)
count_ones(v) == IF v = 0 THEN 0 ELSE (v % 2) + count_ones(v \div 2)

RECURSIVE trailing_zeros_from(_, _)
trailing_zeros_from(v, i) ==
    IF v = 0 THEN BitWidth
    ELSE IF v % 2 = 1 THEN i ELSE trailing_zeros_from(v \div 2, i + 1)

trailing_zeros(v) == trailing_zeros_from(v, 0)

---------------------------------------------------------------------------
(* GeometricAlgebra and BasisElement *)

basis_size(algebra) == 2 ^ Len(algebra)

from_index(index) == [scalar |-> 1, index |-> index]

grade(element) == count_ones(element.index)

\* component_bits: the set bits of the index, visited in ascending order
component_bits(element) == Bits(element.index)

\* commutation_step with the operand b never updated: every step reads b.index
commutation_step_stale(acc, index) ==
    LET hurdles_a == BitAnd(acc.a, MaxShl(index + 1))
        hurdles_b == BitAnd(acc.b, LowMask(index))
    IN [commutations |-> acc.commutations + grade(from_index(BitOr(hurdles_a, hurdles_b))),
        a |-> BitAnd(acc.a, BitNot(2 ^ index)),
        b |-> acc.b]

\* commutation_step that forgets the generators of a still to be passed
commutation_step_no_hurdles_a(acc, index) ==
    LET hurdles_b == BitAnd(acc.b, LowMask(index))
    IN [commutations |-> acc.commutations + grade(from_index(hurdles_b)),
        a |-> BitAnd(acc.a, BitNot(2 ^ index)),
        b |-> BitXor(acc.b, 2 ^ index)]

\* One step of the fold of BasisElement::product over component bit `index`
commutation_step(acc, index) ==
    LET hurdles_a == BitAnd(acc.a, MaxShl(index + 1))
        hurdles_b == BitAnd(acc.b, LowMask(index))
    IN [commutations |-> acc.commutations + grade(from_index(BitOr(hurdles_a, hurdles_b))),
        a |-> BitAnd(acc.a, BitNot(2 ^ index)),
        b |-> BitXor(acc.b, 2 ^ index)]

\* the fold visits the component bits of the operand a in ascending order
RECURSIVE commutation_fold(_, _)
commutation_fold(acc, bits) ==
    IF bits = {} THEN acc
    ELSE LET index == CHOOSE j \in bits : \A k \in bits : j <= k
         IN commutation_fold(commutation_step(acc, index), bits \ {index})

\* scalar_fold that never multiplies a generator square in
scalar_fold_no_squares(acc, bits, algebra) == acc

RECURSIVE scalar_fold(_, _, _)
scalar_fold(acc, bits, algebra) ==
    IF bits = {} THEN acc
    ELSE LET i == CHOOSE j \in bits : \A k \in bits : j <= k
         IN scalar_fold(acc * algebra[i + 1], bits \ {i}, algebra)

\* BasisElement::product with the commutations never counted
BasisElement_product_uncounted(a, b, algebra) ==
    [scalar |-> scalar_fold(a.scalar * b.scalar,
                            component_bits(from_index(BitAnd(a.index, b.index))),
                            algebra),
     index |-> BitXor(a.index, b.index)]

BasisElement_product(a, b, algebra) ==
    LET commutations == commutation_fold([commutations |-> 0, a |-> a.index, b |-> b.index],
                                         component_bits(a))
        sign == IF commutations.commutations % 2 = 0 THEN 1 ELSE -1
    IN [scalar |-> scalar_fold(a.scalar * b.scalar * sign,
                               component_bits(from_index(BitAnd(a.index, b.index))),
                               algebra),
        index |-> BitXor(a.index, b.index)]

BasisElement_dual_unsigned(element, algebra) ==
    [scalar |-> element.scalar, index |-> basis_size(algebra) - 1 - element.index]

BasisElement_dual(element, algebra) ==
    LET result == [scalar |-> element.scalar,
                   index |-> basis_size(algebra) - 1 - element.index]
    IN [result EXCEPT !.scalar = result.scalar * BasisElement_product(element, result, algebra).scalar]

\* Ord for BasisElement: TRUE when cmp(a, b) is Less (cmp never answers Equal)
cmp_Less(a, b) ==
    IF grade(a) # grade(b) THEN grade(a) < grade(b)
    ELSE LET a_without_b == BitAnd(a.index, BitNot(b.index))
             b_without_a == BitAnd(b.index, BitNot(a.index))
         IN trailing_zeros(a_without_b) < trailing_zeros(b_without_a)

\* GeometricAlgebra::basis as a sequence, position index + 1 holding element `index`
basis(algebra) ==
    [k \in 1 .. basis_size(algebra) |->
        LET element == from_index(k - 1)
            dual == BasisElement_dual(element, algebra)
        IN IF cmp_Less(dual, element)
           THEN [element EXCEPT !.scalar = BasisElement_dual(element, algebra).scalar]
           ELSE element]

---------------------------------------------------------------------------
(* Values of the parts a specification does not run *)

NoClass == [class_name |-> "", grouped_basis |-> <<>>]

NoLook == [signature |-> <<>>, class |-> NoClass, called |-> FALSE, at |-> 0]

NoExpression == [tag |-> "None", size |-> 0]

EmptyMap == [x \in {} |-> 0]

IdleAlgebra ==
    /\ el_a = from_index(0) /\ el_b = from_index(0) /\ el_c = from_index(0)
    /\ results = [ab |-> from_index(0), bc |-> from_index(0), ab_c |-> from_index(0),
                  a_bc |-> from_index(0), aa |-> from_index(0)]
    /\ apc = "idle"

IdleRegistry ==
    /\ classes = <<>>
    /\ index_by_signature = EmptyMap
    /\ registered = <<>>
    /\ looked = NoLook

IdleSimplifier ==
    /\ expression = NoExpression
    /\ simplified = NoExpression
    /\ spc = "idle"

NoCall == [kind |-> "none"]

NoApplied == [once |-> EmptyMap, twice |-> EmptyMap,
              dual |-> from_index(0), dual_dual |-> from_index(0)]

IdleTables ==
    /\ table_element = from_index(0)
    /\ applied = NoApplied
    /\ tpc = "idle"

NoParse == [aborted |-> FALSE, element |-> from_index(0)]

IdleParse ==
    /\ element_name = <<>>
    /\ parsed = NoParse
    /\ ppc = "idle"

IdleMachine ==
    machine = [phase |-> "idle", env |-> EmptyMap, todo |-> <<>>, value |-> <<>>]

IdleCallers == IdleTables /\ IdleParse /\ IdleMachine

IdleDriver ==
    /\ declared = <<>>
    /\ involutions = <<>>
    /\ products = <<>>
    /\ dpc = [phase |-> "idle", a |-> 0, b |-> 0, k |-> 0]
    /\ emitted = <<>>
    /\ emitted_again = <<>>
    /\ single_trait_implementations = EmptyMap
    /\ inner_trait_implementations = EmptyMap
    /\ pair_trait_implementations = EmptyMap
    /\ trait_implementations = EmptyMap
    /\ last = NoCall

---------------------------------------------------------------------------
(* The algebra caller: draws a signature and three signed elements and     *)
(* applies BasisElement::product to them.                                  *)

SquareValues == {-1, 0, 1}

Algebras == UNION {[1 .. n -> SquareValues] : n \in 1 .. MaxGenerators}

SignedElements(algebra) ==
    [scalar : {-1, 1}, index : 0 .. (basis_size(algebra) - 1)]

NoResults == [ab |-> from_index(0), bc |-> from_index(0), ab_c |-> from_index(0),
              a_bc |-> from_index(0), aa |-> from_index(0)]

InitAlgebra ==
    /\ generator_squares \in Algebras
    /\ el_a \in SignedElements(generator_squares)
    /\ el_b \in SignedElements(generator_squares)
    /\ el_c \in SignedElements(generator_squares)
    /\ results = NoResults
    /\ apc = "start"
    /\ IdleRegistry
    /\ IdleSimplifier
    /\ IdleDriver
    /\ IdleCallers

Multiply ==
    /\ apc = "start"
    /\ LET ab == BasisElement_product(el_a, el_b, generator_squares)
           bc == BasisElement_product(el_b, el_c, generator_squares)
       IN results' = [ab |-> ab, bc |-> bc,
                      ab_c |-> BasisElement_product(ab, el_c, generator_squares),
                      a_bc |-> BasisElement_product(el_a, bc, generator_squares),
                      aa |-> BasisElement_product(el_a, el_a, generator_squares)]
    /\ apc' = "done"
    /\ UNCHANGED <<generator_squares, el_a, el_b, el_c, registryVars, simplifierVars, driverVars, callerVars>>

NextAlgebra == Multiply

SpecAlgebra == InitAlgebra /\ [][NextAlgebra]_vars

---------------------------------------------------------------------------
(* MultiVectorClass and MultiVectorClassRegistry *)

RECURSIVE Flatten(_)
Flatten(groups) ==
    IF groups = <<>> THEN <<>> ELSE Head(groups) \o Flatten(Tail(groups))

flat_basis(class) == Flatten(class.grouped_basis)

\* a signature left in the order of declaration
signature_unsorted(class) ==
    LET flat == flat_basis(class)
    IN [i \in 1 .. Len(flat) |-> flat[i].index]

signature(class) ==
    LET flat == flat_basis(class)
    IN SortSeq([i \in 1 .. Len(flat) |-> flat[i].index], LAMBDA x, y : x < y)

\* an insert that keeps the entry a signature already has
HashMap_insert_keep_first(map, key, value) ==
    [k \in (DOMAIN map) \cup {key} |-> IF k \in DOMAIN map THEN map[k] ELSE value]

\* HashMap::insert: the new value replaces the one the key had
HashMap_insert(map, key, value) ==
    [k \in (DOMAIN map) \cup {key} |-> IF k = key THEN value ELSE map[k]]

\* MultiVectorClassRegistry::get, None being NoClass
registry_get(held, map, sig) ==
    IF sig \in DOMAIN map THEN held[map[sig] + 1] ELSE NoClass

Register(class) ==
    /\ index_by_signature' = HashMap_insert(index_by_signature, signature(class), Len(classes))
    /\ classes' = Append(classes, class)
    /\ registered' = Append(registered, class)

Get(sig) ==
    /\ looked' = [signature |-> sig,
                  class |-> registry_get(classes, index_by_signature, sig),
                  called |-> TRUE,
                  at |-> Len(classes)]
    /\ UNCHANGED <<classes, index_by_signature, registered>>

---------------------------------------------------------------------------
(* The registry caller: registers classes of a two-generator algebra in    *)
(* any order and looks signatures up.                                      *)

E(index) == [scalar |-> 1, index |-> index]
NegE(index) == [scalar |-> -1, index |-> index]

ClassPool ==
    { [class_name |-> "Scalar", grouped_basis |-> << <<E(0)>> >>],
      [class_name |-> "Vector", grouped_basis |-> << <<E(1), E(2)>> >>],
      [class_name |-> "Rotated", grouped_basis |-> << <<E(2)>>, <<E(1)>> >>],
      [class_name |-> "Bivector", grouped_basis |-> << <<NegE(3)>> >>],
      [class_name |-> "Rotor", grouped_basis |-> << <<E(0), E(3)>> >>],
      [class_name |-> "MultiVector", grouped_basis |-> << <<E(0)>>, <<E(1), E(2)>>, <<E(3)>> >>] }

LookupSignatures == {signature(class) : class \in ClassPool} \cup { <<0, 1>>, <<2, 1>> }

InitRegistry ==
    /\ generator_squares = <<1, 1>>
    /\ IdleAlgebra
    /\ IdleRegistry
    /\ IdleSimplifier
    /\ IdleDriver
    /\ IdleCallers

RegisterClass ==
    /\ Len(classes) < MaxClasses
    /\ \E class \in ClassPool : Register(class)
    /\ UNCHANGED looked
    /\ UNCHANGED <<algebraVars, simplifierVars, driverVars, callerVars>>

GetClass ==
    /\ \E sig \in LookupSignatures : Get(sig)
    /\ UNCHANGED <<algebraVars, simplifierVars, driverVars, callerVars>>

NextRegistry == RegisterClass \/ GetClass

SpecRegistry == InitRegistry /\ [][NextRegistry]_vars

---------------------------------------------------------------------------
(* Claims about the registry *)

IndicesOf(class) ==
    LET flat == Flatten(class.grouped_basis) IN {flat[i].index : i \in 1 .. Len(flat)}

\* s lists the indices of the class in ascending order
IsSignatureOf(s, class) ==
    LET flat == Flatten(class.grouped_basis)
    IN /\ Len(s) = Len(flat)
       /\ \A i \in 1 .. (Len(s) - 1) : s[i] <= s[i + 1]
       /\ \A v \in IndicesOf(class) \cup {s[i] : i \in 1 .. Len(s)} :
              Cardinality({i \in 1 .. Len(s) : s[i] = v})
                  = Cardinality({i \in 1 .. Len(flat) : flat[i].index = v})

MostRecent(log, s) ==
    LET K == {k \in 1 .. Len(log) : IsSignatureOf(s, log[k])}
    IN IF K = {} THEN NoClass ELSE log[CHOOSE k \in K : \A j \in K : j <= k]

\* C9: the registry is a bijection between signatures and held classes: get answers
\* every held class for its own signature and distinct held classes differ in signature
C9_Bijection ==
    /\ \A k \in 1 .. Len(classes) :
          registry_get(classes, index_by_signature, signature(classes[k])) = classes[k]
    /\ \A j, k \in 1 .. Len(classes) :
          classes[j] # classes[k] => signature(classes[j]) # signature(classes[k])

\* C10: classes holds the registered classes in call order, and get answers the most
\* recently registered class of the signature asked for, or None when there is none
C10_OrderAndLatest ==
    /\ classes = registered
    /\ looked.called =>
          looked.class = MostRecent(SubSeq(registered, 1, looked.at), looked.signature)

C10_Witness ==
    /\ looked.called
    /\ Len(classes) = 3 /\ looked.at = 3
    /\ looked.class = classes[3]
    /\ IsSignatureOf(looked.signature, classes[1])
    /\ classes[1] # classes[3]
    /\ classes[2] # classes[3] /\ ~IsSignatureOf(looked.signature, classes[2])

---------------------------------------------------------------------------
(* Expression trees (ast.rs) and simplify_and_legalize (compile.rs)        *)

None(size) == [tag |-> "None", size |-> size]
Variable(size, name) == [tag |-> "Variable", size |-> size, name |-> name]
Gather(size, inner, indices) ==
    [tag |-> "Gather", size |-> size, inner |-> inner, indices |-> indices]
Access(size, inner, index) ==
    [tag |-> "Access", size |-> size, inner |-> inner, index |-> index]
Swizzle(size, inner, indices) ==
    [tag |-> "Swizzle", size |-> size, inner |-> inner, indices |-> indices]
\* the data type of every constant built here is SimdVector(width)
Constant(size, width, values) ==
    [tag |-> "Constant", size |-> size, data_type |-> width, values |-> values]
Binary(tag, size, a, b) == [tag |-> tag, size |-> size, a |-> a, b |-> b]

AllEqual(seq, value) == \A i \in 1 .. Len(seq) : seq[i] = value

\* the Multiply arm with None absorbing the product instead of vanishing from it
simplify_multiply_absorbing(size, a0, b0) ==
    LET swap == a0.tag = "Constant"
        a == IF swap THEN b0 ELSE a0
        b == IF swap THEN a0 ELSE b0
    IN IF a.tag = "None" THEN None(size)
       ELSE IF b.tag = "None" THEN None(size)
       ELSE IF b.tag = "Constant" /\ AllEqual(b.values, 1) THEN a
       ELSE IF b.tag = "Constant" /\ AllEqual(b.values, 0) THEN None(size)
       ELSE Binary("Multiply", size, a, b)

\* the Multiply arm of simplify_and_legalize, given the simplified operands
simplify_multiply(size, a0, b0) ==
    LET swap == a0.tag = "Constant"
        a == IF swap THEN b0 ELSE a0
        b == IF swap THEN a0 ELSE b0
    IN IF a.tag = "None" THEN b
       ELSE IF b.tag = "None" THEN a
       ELSE IF b.tag = "Constant" /\ AllEqual(b.values, 1) THEN a
       ELSE IF b.tag = "Constant" /\ AllEqual(b.values, 0) THEN None(size)
       ELSE Binary("Multiply", size, a, b)

\* the Gather arm that keeps two of the equal pairs
simplify_gather_paired(size, inner, indices) ==
    LET first_index_pair == indices[1]
    IN IF AllEqual(indices, first_index_pair)
       THEN Gather(size, inner, <<first_index_pair, first_index_pair>>)
       ELSE IF inner.size = size
               /\ \A i \in 1 .. Len(indices) : indices[i][1] = first_index_pair[1]
       THEN LET access == Access(size, inner, first_index_pair[1])
            IN IF \E i \in 1 .. Len(indices) : (i - 1) # indices[i][2]
               THEN Swizzle(size, access, [i \in 1 .. Len(indices) |-> indices[i][2]])
               ELSE access
       ELSE Gather(size, inner, indices)

\* the Gather arm, given the simplified inner expression
\* the Gather arm that never swizzles
simplify_gather_unswizzled(size, inner, indices) ==
    LET first_index_pair == indices[1]
    IN IF AllEqual(indices, first_index_pair)
       THEN Gather(size, inner, <<first_index_pair>>)
       ELSE IF inner.size = size
               /\ \A i \in 1 .. Len(indices) : indices[i][1] = first_index_pair[1]
       THEN Access(size, inner, first_index_pair[1])
       ELSE Gather(size, inner, indices)

simplify_gather(size, inner, indices) ==
    LET first_index_pair == indices[1]
    IN IF AllEqual(indices, first_index_pair)
       THEN Gather(size, inner, <<first_index_pair>>)
       ELSE IF inner.size = size
               /\ \A i \in 1 .. Len(indices) : indices[i][1] = first_index_pair[1]
       THEN LET access == Access(size, inner, first_index_pair[1])
            IN IF \E i \in 1 .. Len(indices) : (i - 1) # indices[i][2]
               THEN Swizzle(size, access, [i \in 1 .. Len(indices) |-> indices[i][2]])
               ELSE access
       ELSE Gather(size, inner, indices)

\* the test of the Add arm for b = Multiply(c, Multiply(e, Constant(all -1)))
IsNegatedProduct(b) ==
    /\ b.tag = "Multiply"
    /\ b.b.tag = "Multiply"
    /\ b.b.b.tag = "Constant"
    /\ AllEqual(b.b.b.values, -1)

RECURSIVE simplify_and_legalize(_)
simplify_and_legalize(e) ==
    CASE e.tag = "Gather" ->
            IF Len(e.indices) > 0
            THEN simplify_gather(e.size, simplify_and_legalize(e.inner), e.indices)
            ELSE None(e.size)
      [] e.tag = "Constant" ->
            IF AllEqual(e.values, e.values[1])
            THEN Constant(e.size, e.data_type, <<e.values[1]>>)
            ELSE e
      [] e.tag = "Add" ->
            IF IsNegatedProduct(e.b)
            THEN simplify_and_legalize(
                     Binary("Subtract", e.size, e.a,
                            Binary("Multiply", e.size, e.b.a, e.b.b.a)))
            ELSE LET a == simplify_and_legalize(e.a)
                     b == simplify_and_legalize(e.b)
                 IN IF a.tag = "None" THEN b
                    ELSE IF b.tag = "None" THEN a
                    ELSE Binary("Add", e.size, a, b)
      [] e.tag = "Subtract" ->
            LET a == simplify_and_legalize(e.a)
                b == simplify_and_legalize(e.b)
            IN IF a.tag = "None"
               THEN Binary("Subtract", e.size, Constant(e.size, e.size, <<0>>), b)
               ELSE IF b.tag = "None" THEN a
               ELSE Binary("Subtract", e.size, a, b)
      [] e.tag = "Multiply" ->
            simplify_multiply(e.size, simplify_and_legalize(e.a), simplify_and_legalize(e.b))
      [] OTHER -> e

---------------------------------------------------------------------------
(* The simplifier caller: builds a well-formed tree of two-lane            *)
(* expressions over the variable self (two groups of two lanes) and        *)
(* simplifies it.                                                          *)

Lanes == 2

GatherAtoms ==
    {Gather(Lanes, Variable(Lanes, "self"), indices) :
        indices \in { << <<0, 0>>, <<0, 1>> >>, << <<0, 1>>, <<0, 0>> >>,
                      << <<1, 1>>, <<1, 1>> >>, << <<0, 0>>, <<1, 0>> >> }}

ConstantAtoms ==
    {Constant(Lanes, Lanes, values) :
        values \in { <<0, 0>>, <<1, 1>>, <<-1, -1>>, <<1, -1>>, <<0, 1>>, <<2>> }}

Atoms == GatherAtoms \cup ConstantAtoms \cup {None(Lanes)}

BinaryTags == {"Add", "Subtract", "Multiply"}

\* the number of binary nodes of a tree
RECURSIVE OpsIn(_)
OpsIn(e) == IF e.tag \in BinaryTags THEN 1 + OpsIn(e.a) + OpsIn(e.b) ELSE 0

InitSimplifier ==
    /\ generator_squares = <<1, 1>>
    /\ IdleAlgebra
    /\ IdleRegistry
    /\ expression \in Atoms
    /\ simplified = NoExpression
    /\ spc = "build"
    /\ IdleDriver
    /\ IdleCallers

\* the caller puts the tree built so far under a new binary node, on either side
Wrap ==
    /\ spc = "build"
    /\ OpsIn(expression) < MaxOps
    /\ \E tag \in BinaryTags, atom \in Atoms :
          \/ expression' = Binary(tag, Lanes, expression, atom)
          \/ expression' = Binary(tag, Lanes, atom, expression)
    /\ UNCHANGED <<simplified, spc, algebraVars, registryVars, driverVars, callerVars>>

\* the caller adds one fused multiply-add term to the sum built so far, the shape
\* product() builds
WrapFma ==
    /\ spc = "build"
    /\ OpsIn(expression) < MaxOps
    /\ \E g \in GatherAtoms, h \in GatherAtoms, c \in ConstantAtoms :
          expression' = Binary("Add", Lanes, expression,
                               Binary("Multiply", Lanes, g, Binary("Multiply", Lanes, h, c)))
    /\ UNCHANGED <<simplified, spc, algebraVars, registryVars, driverVars, callerVars>>

Simplify ==
    /\ spc = "build"
    /\ simplified' = simplify_and_legalize(expression)
    /\ spc' = "done"
    /\ UNCHANGED <<expression, algebraVars, registryVars, driverVars, callerVars>>

NextSimplifier == Wrap \/ WrapFma \/ Simplify

SpecSimplifier == InitSimplifier /\ [][NextSimplifier]_vars

---------------------------------------------------------------------------
(* The reference evaluator: the lane values of an expression, the          *)
(* variables being multivectors (groups of lanes) and None the zero value  *)

LaneOp(tag, x, y) ==
    CASE tag = "Add" -> x + y
      [] tag = "Subtract" -> x - y
      [] tag = "Multiply" -> x * y

RECURSIVE Eval(_, _)
Eval(e, env) ==
    CASE e.tag = "None" -> [i \in 1 .. e.size |-> 0]
      [] e.tag = "Constant" ->
            [i \in 1 .. e.size |-> IF Len(e.values) = 1 THEN e.values[1] ELSE e.values[i]]
      [] e.tag = "Gather" ->
            [i \in 1 .. e.size |->
                LET pair == IF Len(e.indices) = 1 THEN e.indices[1] ELSE e.indices[i]
                IN env[e.inner.name][pair[1] + 1][pair[2] + 1]]
      [] e.tag = "Access" -> env[e.inner.name][e.index + 1]
      [] e.tag = "Swizzle" ->
            LET v == Eval(e.inner, env) IN [i \in 1 .. e.size |-> v[e.indices[i] + 1]]
      [] OTHER ->
            LET x == Eval(e.a, env)
                y == Eval(e.b, env)
            IN [i \in 1 .. e.size |-> LaneOp(e.tag, x[i], y[i])]

LaneValues == 0 .. MaxLaneValue

SimplifierEnvs ==
    {[name \in {"self"} |-> groups] :
        groups \in [1 .. 2 -> [1 .. Lanes -> LaneValues]]}

\* C8: the simplified tree has the lane values of the tree it was made from
C8_Preserved ==
    spc = "done" =>
        \A env \in SimplifierEnvs : Eval(simplified, env) = Eval(expression, env)

---------------------------------------------------------------------------
(* Involution and Product tables (algebra.rs)                              *)

\* the position (from 1) of the first entry satisfying Test, 0 when there is none
Position(seq, Test(_)) ==
    LET hits == {i \in 1 .. Len(seq) : Test(seq[i])}
    IN IF hits = {} THEN 0 ELSE CHOOSE i \in hits : \A j \in hits : i <= j

Involution_identity(algebra) ==
    LET elements == basis(algebra)
    IN [k \in 1 .. Len(elements) |-> [in |-> elements[k], out |-> elements[k]]]

Involution_projection(class) ==
    LET flat == flat_basis(class)
    IN [k \in 1 .. Len(flat) |-> [in |-> flat[k], out |-> flat[k]]]

negation_factor_doubled(negate) == IF negate THEN -2 ELSE 1

\* the factor of Involution::negated: if grade_negation(..) { -1 } else { 1 }
negation_factor(negate) == IF negate THEN -1 ELSE 1

Involution_negated(terms, grade_negation(_)) ==
    [k \in 1 .. Len(terms) |->
        [in |-> terms[k].in,
         out |-> [terms[k].out EXCEPT
                    !.scalar = @ * negation_factor(grade_negation(grade(terms[k].out)))]]]

Involution_dual(terms, algebra) ==
    [k \in 1 .. Len(terms) |->
        [in |-> terms[k].in, out |-> BasisElement_dual(terms[k].out, algebra)]]

Involution_involutions(algebra) ==
    LET involution == Involution_identity(algebra)
    IN << [name |-> "Neg", terms |-> Involution_negated(involution, LAMBDA g : TRUE)],
          [name |-> "Automorphism", terms |-> Involution_negated(involution, LAMBDA g : g % 2 = 1)],
          [name |-> "Reversal", terms |-> Involution_negated(involution, LAMBDA g : g % 4 >= 2)],
          [name |-> "Conjugation", terms |-> Involution_negated(involution, LAMBDA g : (g + 3) % 4 < 2)],
          [name |-> "Dual", terms |-> Involution_dual(involution, algebra)] >>

Product_new(a, b, algebra) ==
    LET all == [k \in 1 .. (Len(a) * Len(b)) |->
                    LET fa == a[((k - 1) \div Len(b)) + 1]
                        fb == b[((k - 1) % Len(b)) + 1]
                    IN [product |-> BasisElement_product(fa, fb, algebra),
                        factor_a |-> fa, factor_b |-> fb]]
    IN SelectSeq(all, LAMBDA term : term.product.scalar # 0)

Product_projected(terms, grade_projection(_, _, _)) ==
    SelectSeq(terms, LAMBDA term :
        grade_projection(grade(term.factor_a), grade(term.factor_b), grade(term.product)))

Product_dual(terms, algebra) ==
    [k \in 1 .. Len(terms) |->
        [product |-> BasisElement_dual(terms[k].product, algebra),
         factor_a |-> BasisElement_dual(terms[k].factor_a, algebra),
         factor_b |-> BasisElement_dual(terms[k].factor_b, algebra)]]

Abs_identity(x) == x

Abs(x) == IF x < 0 THEN -x ELSE x

\* the seven tables, given the basis and the geometric product of the basis
products_from(product, algebra) ==
    << [name |-> "GeometricProduct", terms |-> product],
       [name |-> "RegressiveProduct",
        terms |-> Product_dual(Product_projected(product, LAMBDA r, s, t : t = r + s), algebra)],
       [name |-> "OuterProduct", terms |-> Product_projected(product, LAMBDA r, s, t : t = r + s)],
       [name |-> "InnerProduct", terms |-> Product_projected(product, LAMBDA r, s, t : t = Abs(r - s))],
       [name |-> "LeftContraction", terms |-> Product_projected(product, LAMBDA r, s, t : t = s - r)],
       [name |-> "RightContraction", terms |-> Product_projected(product, LAMBDA r, s, t : t = r - s)],
       [name |-> "ScalarProduct", terms |-> Product_projected(product, LAMBDA r, s, t : t = 0)] >>

\* Product::products; the basis and the geometric product are computed once
Product_products(algebra) ==
    CHOOSE tables \in
        {products_from(product, algebra) :
            product \in {Product_new(elements, elements, algebra) : elements \in {basis(algebra)}}} :
        TRUE

---------------------------------------------------------------------------
(* The operation synthesiser (compile.rs): AST nodes, constants,           *)
(* involutions and element-wise operations                                 *)

AstNone == [kind |-> "None"]

Parameter(name, class) == [name |-> name, class |-> class]

\* a TraitImplementation whose body returns the Constructor of the result class
\* applied to one expression per group
TraitImplementation(name, result_class, parameters, body) ==
    [kind |-> "TraitImplementation",
     result |-> Parameter(name, result_class),
     parameters |-> parameters,
     body |-> body]

Argument(size, e) == [data_type |-> size, expression |-> e]

\* what a synthesiser call leaves behind: the signature it computed, whether it
\* asked the registry and the answer, and the node it returned
Synthesis(looked_up, sig, result_class, node) ==
    [looked_up |-> looked_up, signature |-> sig, result_class |-> result_class,
     sorted_terms |-> <<>>, raw |-> <<>>, node |-> node]

\* a sort that leaves the sequence as it came
sort_unstable_skipped(seq) == seq

sort_unstable(seq) == SortSeq(seq, LAMBDA x, y : x < y)

\* the keys a std HashSet hashes with differ from set to set and from run to run
HashSeeds == {0, 3}

\* where the hasher of that seed puts an element: no two elements share a place
hash_place(element, seed) ==
    2 * BitXor(element.index, seed) + (IF element.scalar < 0 THEN 1 ELSE 0)

\* HashSet::into_iter: the elements in the order of their places
RECURSIVE HashSet_into_iter(_, _)
HashSet_into_iter(elements, seed) ==
    IF elements = {} THEN <<>>
    ELSE LET first == CHOOSE el \in elements :
                          \A other \in elements : hash_place(el, seed) <= hash_place(other, seed)
         IN <<first>> \o HashSet_into_iter(elements \ {first}, seed)

\* .into_iter().map(|element| element.index).collect() and sort_unstable()
sorted_indices_of(in_order) == sort_unstable([k \in 1 .. Len(in_order) |-> in_order[k].index])

RECURSIVE index_in_group_from(_, _, _)
index_in_group_from(groups, group_index, index) ==
    IF index >= Len(groups[group_index + 1])
    THEN index_in_group_from(groups, group_index + 1, index - Len(groups[group_index + 1]))
    ELSE <<group_index, index>>

\* flat position (from 0) to (group, lane)
index_in_group(class, index) == index_in_group_from(class.grouped_basis, 0, index)

\* the number of lanes before group g (from 1)
RECURSIVE base_index(_, _)
base_index(groups, g) ==
    IF g <= 1 THEN 0 ELSE Len(groups[g - 1]) + base_index(groups, g - 1)

HasIndex(flat, index) == \E i \in 1 .. Len(flat) : flat[i].index = index

MultiVectorClass_constant(class, name) ==
    LET scalar_value == IF name = "One" THEN 1 ELSE 0
        other_values == 0
        body == [g \in 1 .. Len(class.grouped_basis) |->
                    LET result_group == class.grouped_basis[g]
                        size == Len(result_group)
                    IN Argument(size, simplify_and_legalize(
                           Constant(size, size,
                                    [i \in 1 .. size |->
                                        IF result_group[i].index = 0 THEN scalar_value
                                        ELSE other_values])))]
    IN Synthesis(FALSE, <<>>, NoClass, TraitImplementation(name, class, <<>>, body))

involution_body(terms, parameter_a, result_class) ==
    LET a_class == parameter_a.class
        a_flat_basis == flat_basis(a_class)
    IN [g \in 1 .. Len(result_class.grouped_basis) |->
          LET result_group == result_class.grouped_basis[g]
              size == Len(result_group)
              lane(i) ==
                  LET result_element == result_group[i]
                      involution_element ==
                          Position(terms, LAMBDA t : t.out.index = result_element.index)
                      in_element == terms[involution_element].in
                      out_element == terms[involution_element].out
                      index_in_a == Position(a_flat_basis, LAMBDA el : el.index = in_element.index)
                  IN [factor |-> out_element.scalar * result_element.scalar
                                  * in_element.scalar * a_flat_basis[index_in_a].scalar,
                      pair |-> index_in_group(a_class, index_in_a - 1)]
              a_indices == [i \in 1 .. size |-> lane(i).pair]
              factors == [i \in 1 .. size |-> lane(i).factor]
              a_group_index == a_indices[1][1]
          IN Argument(size, simplify_and_legalize(
                 Binary("Multiply", size,
                        Gather(size,
                               Variable(Len(a_class.grouped_basis[a_group_index + 1]),
                                        parameter_a.name),
                               a_indices),
                        Constant(size, size, factors))))]

MultiVectorClass_involution(name, terms, parameter_a, held, map, project) ==
    LET a_flat_basis == flat_basis(parameter_a.class)
        mapped == [k \in 1 .. Len(a_flat_basis) |->
                      Position(terms, LAMBDA t : t.in.index = a_flat_basis[k].index)]
        found == SelectSeq(mapped, LAMBDA at : at # 0)
        result_signature == sort_unstable([k \in 1 .. Len(found) |-> terms[found[k]].out.index])
        result_class == registry_get(held, map, result_signature)
    IN IF project /\ \E k \in 1 .. Len(terms) : ~HasIndex(a_flat_basis, terms[k].in.index)
       THEN Synthesis(FALSE, <<>>, NoClass, AstNone)
       ELSE IF result_class # NoClass
       THEN Synthesis(TRUE, result_signature, result_class,
                      TraitImplementation(name, result_class, <<parameter_a>>,
                                          involution_body(terms, parameter_a, result_class)))
       ELSE Synthesis(TRUE, result_signature, NoClass, AstNone)

\* the indices of a set of signed elements, ascending, one entry per element
\* one operand of an element-wise operation on one result group
element_wise_operand(parameter, result_group) ==
    LET flat == flat_basis(parameter.class)
        size == Len(result_group)
        at(i) == Position(flat, LAMBDA el : el.index = result_group[i].index)
        term(i) ==
            IF at(i) # 0
            THEN [factor |-> result_group[i].scalar * flat[at(i)].scalar,
                  pair |-> index_in_group(parameter.class, at(i) - 1)]
            ELSE [factor |-> 0, pair |-> <<0, 0>>]
        present == {i \in 1 .. size : at(i) # 0}
        last_present == CHOOSE i \in present : \A j \in present : j <= i
    IN Binary("Multiply", size,
              Gather(size,
                     Variable(IF present # {}
                              THEN Len(parameter.class.grouped_basis[term(last_present).pair[1] + 1])
                              ELSE size,
                              parameter.name),
                     [i \in 1 .. size |-> term(i).pair]),
              Constant(size, size, [i \in 1 .. size |-> term(i).factor]))

element_wise_body(name, parameter_a, parameter_b, result_class) ==
    [g \in 1 .. Len(result_class.grouped_basis) |->
        Argument(Len(result_class.grouped_basis[g]), simplify_and_legalize(
            Binary(IF name = "Add" THEN "Add" ELSE "Subtract", Len(result_class.grouped_basis[g]),
                   element_wise_operand(parameter_a, result_class.grouped_basis[g]),
                   element_wise_operand(parameter_b, result_class.grouped_basis[g]))))]

element_wise_for_class(name, parameter_a, parameter_b, result_signature, result_class) ==
    IF result_class # NoClass
    THEN Synthesis(TRUE, result_signature, result_class,
                   TraitImplementation(name, result_class, <<parameter_a, parameter_b>>,
                       element_wise_body(name, parameter_a, parameter_b, result_class)))
    ELSE Synthesis(TRUE, result_signature, NoClass, AstNone)

\* the part of element_wise after the result signature is sorted
element_wise_for_signature(name, parameter_a, parameter_b, held, map, result_signature) ==
    element_wise_for_class(name, parameter_a, parameter_b, result_signature,
                           registry_get(held, map, result_signature))

\* the elements of both operands through a HashSet, their indices sorted
element_wise_result_signature(a_flat_basis, b_flat_basis, seed) ==
    sorted_indices_of(HashSet_into_iter(
        {a_flat_basis[i] : i \in 1 .. Len(a_flat_basis)}
            \cup {b_flat_basis[i] : i \in 1 .. Len(b_flat_basis)}, seed))

MultiVectorClass_element_wise(name, parameter_a, parameter_b, held, map, seed) ==
    element_wise_for_signature(name, parameter_a, parameter_b, held, map,
        element_wise_result_signature(flat_basis(parameter_a.class),
                                      flat_basis(parameter_b.class), seed))

---------------------------------------------------------------------------
(* MultiVectorClass::product                                               *)

\* the matrix with the sign of the product left out of the coefficient
product_sorted_terms_unsigned(terms, a_flat_basis, b_flat_basis, result_flat_basis) ==
    [y \in 1 .. Len(result_flat_basis) |->
        [x \in 1 .. Len(a_flat_basis) |->
            LET hits == {k \in 1 .. Len(terms) :
                            /\ Position(result_flat_basis,
                                        LAMBDA el : el.index = terms[k].product.index) = y
                            /\ Position(a_flat_basis,
                                        LAMBDA el : el.index = terms[k].factor_a.index) = x
                            /\ HasIndex(b_flat_basis, terms[k].factor_b.index)}
            IN IF hits = {} THEN [factor |-> 0, index_in_b |-> 0]
               ELSE LET k == CHOOSE h \in hits : \A j \in hits : j <= h
                        gather_index == Position(b_flat_basis,
                                                 LAMBDA el : el.index = terms[k].factor_b.index)
                    IN [factor |-> result_flat_basis[y].scalar
                                    * a_flat_basis[x].scalar * terms[k].factor_a.scalar
                                    * b_flat_basis[gather_index].scalar * terms[k].factor_b.scalar,
                        index_in_b |-> gather_index - 1]]]

\* the matrix with the signs of the table's two factors left out of the coefficient
product_sorted_terms_canonical(terms, a_flat_basis, b_flat_basis, result_flat_basis) ==
    [y \in 1 .. Len(result_flat_basis) |->
        [x \in 1 .. Len(a_flat_basis) |->
            LET hits == {k \in 1 .. Len(terms) :
                            /\ Position(result_flat_basis,
                                        LAMBDA el : el.index = terms[k].product.index) = y
                            /\ Position(a_flat_basis,
                                        LAMBDA el : el.index = terms[k].factor_a.index) = x
                            /\ HasIndex(b_flat_basis, terms[k].factor_b.index)}
            IN IF hits = {} THEN [factor |-> 0, index_in_b |-> 0]
               ELSE LET k == CHOOSE h \in hits : \A j \in hits : j <= h
                        gather_index == Position(b_flat_basis,
                                                 LAMBDA el : el.index = terms[k].factor_b.index)
                    IN [factor |-> result_flat_basis[y].scalar * terms[k].product.scalar
                                    * a_flat_basis[x].scalar * b_flat_basis[gather_index].scalar,
                        index_in_b |-> gather_index - 1]]]

\* the sum-of-pairs matrix: row y a lane of the result, column x a lane of A, the
\* entry the coefficient and the lane of B (from 0); a later term of the table
\* overwrites an earlier one
product_sorted_terms(terms, a_flat_basis, b_flat_basis, result_flat_basis) ==
    [y \in 1 .. Len(result_flat_basis) |->
        [x \in 1 .. Len(a_flat_basis) |->
            LET hits == {k \in 1 .. Len(terms) :
                            /\ Position(result_flat_basis,
                                        LAMBDA el : el.index = terms[k].product.index) = y
                            /\ Position(a_flat_basis,
                                        LAMBDA el : el.index = terms[k].factor_a.index) = x
                            /\ HasIndex(b_flat_basis, terms[k].factor_b.index)}
            IN IF hits = {} THEN [factor |-> 0, index_in_b |-> 0]
               ELSE LET k == CHOOSE h \in hits : \A j \in hits : j <= h
                        gather_index == Position(b_flat_basis,
                                                 LAMBDA el : el.index = terms[k].factor_b.index)
                    IN [factor |-> result_flat_basis[y].scalar * terms[k].product.scalar
                                    * a_flat_basis[x].scalar * terms[k].factor_a.scalar
                                    * b_flat_basis[gather_index].scalar * terms[k].factor_b.scalar,
                        index_in_b |-> gather_index - 1]]]

\* the fused multiply-add term of one column
product_column_term(size, parameter_a, parameter_b, a_group_index, b_group_index, a_indices, b_indices, a_terms) ==
    Binary("Multiply", size,
           Gather(size,
                  Variable(Len(parameter_a.class.grouped_basis[a_group_index + 1]), parameter_a.name),
                  a_indices),
           Binary("Multiply", size,
                  Gather(size,
                         Variable(Len(parameter_b.class.grouped_basis[b_group_index + 1]),
                                  parameter_b.name),
                         b_indices),
                  Constant(size, size, [i \in 1 .. size |-> a_terms[i].factor])))

\* a contraction test that lets a column overwrite lanes already taken
is_contractable_overlapping(acc, a_terms, a_size, b_size) ==
    /\ (acc.c0.tag = "None" \/ acc.c0.size = a_size)
    /\ (acc.c1.tag = "None" \/ acc.c1.size = b_size)

\* is_contractable: the column's non-zero lanes are free in the contraction and the
\* contraction's two variables have the lane counts of the column's groups
is_contractable(acc, a_terms, a_size, b_size) ==
    /\ \A i \in 1 .. Len(a_terms) : a_terms[i].factor = 0 \/ acc.c4[i] = 0
    /\ (acc.c0.tag = "None" \/ acc.c0.size = a_size)
    /\ (acc.c1.tag = "None" \/ acc.c1.size = b_size)

\* the column folded into the contraction: its non-zero lanes take the column's
\* pairs and factors, and a fresh contraction takes the column's groups first
product_column_contract(acc, size, a_size, b_size, parameter_a, parameter_b, a_indices, b_indices, a_terms) ==
    [expression |-> acc.expression,
     c0 |-> IF acc.c0.tag = "None" THEN Variable(a_size, parameter_a.name) ELSE acc.c0,
     c1 |-> IF acc.c0.tag = "None" THEN Variable(b_size, parameter_b.name) ELSE acc.c1,
     c2 |-> [i \in 1 .. size |->
                IF a_terms[i].factor # 0 THEN a_indices[i]
                ELSE IF acc.c0.tag = "None" THEN <<a_indices[i][1], 0>> ELSE acc.c2[i]],
     c3 |-> [i \in 1 .. size |->
                IF a_terms[i].factor # 0 THEN b_indices[i]
                ELSE IF acc.c0.tag = "None" THEN <<b_indices[i][1], 0>> ELSE acc.c3[i]],
     c4 |-> [i \in 1 .. size |-> IF a_terms[i].factor # 0 THEN a_terms[i].factor ELSE acc.c4[i]]]

\* the column either folded into the contraction or added as a term of its own
product_column_place(acc, size, a_group_index, b_group_index, parameter_a, parameter_b, a_indices, b_indices, a_terms) ==
    IF is_contractable(acc, a_terms, Len(parameter_a.class.grouped_basis[a_group_index + 1]),
                       Len(parameter_b.class.grouped_basis[b_group_index + 1]))
       /\ \E i \in 1 .. size : a_terms[i].factor = 0
    THEN product_column_contract(acc, size, Len(parameter_a.class.grouped_basis[a_group_index + 1]),
                                 Len(parameter_b.class.grouped_basis[b_group_index + 1]),
                                 parameter_a, parameter_b, a_indices, b_indices, a_terms)
    ELSE [acc EXCEPT !.expression =
             Binary("Add", size, acc.expression,
                    product_column_term(size, parameter_a, parameter_b, a_group_index,
                                        b_group_index, a_indices, b_indices, a_terms))]

\* the lanes with factor 0 gather what the first lane with a factor gathers
product_column_indices(acc, size, parameter_a, parameter_b, a_pair, all_b_indices, non_zero_index, a_terms) ==
    product_column_place(acc, size, a_pair[1], all_b_indices[non_zero_index][1],
                         parameter_a, parameter_b,
                         [i \in 1 .. size |-> a_pair],
                         [i \in 1 .. size |->
                             all_b_indices[IF a_terms[i].factor = 0 THEN non_zero_index ELSE i]],
                         a_terms)

\* one iteration of the loop over the columns: acc holds the sum so far
\* (expression) and the contraction (c0 .. c4)
product_column(acc, size, parameter_a, parameter_b, index_in_a, a_terms) ==
    IF \A i \in 1 .. size : a_terms[i].factor = 0 THEN acc
    ELSE product_column_indices(
             acc, size, parameter_a, parameter_b,
             index_in_group(parameter_a.class, index_in_a),
             [i \in 1 .. size |-> index_in_group(parameter_b.class, a_terms[i].index_in_b)],
             CHOOSE i \in 1 .. size :
                 /\ a_terms[i].factor # 0
                 /\ \A j \in 1 .. (i - 1) : a_terms[j].factor = 0,
             a_terms)

RECURSIVE product_columns(_, _, _, _, _, _)
product_columns(acc, size, parameter_a, parameter_b, index_in_a, transposed_terms) ==
    IF index_in_a >= Len(transposed_terms) THEN acc
    ELSE product_columns(
             product_column(acc, size, parameter_a, parameter_b, index_in_a,
                            transposed_terms[index_in_a + 1]),
             size, parameter_a, parameter_b, index_in_a + 1, transposed_terms)

\* the sum of a group once its columns are done: the contraction is added when it
\* holds a factor, and a group without any term is the zero constant
product_group_sum(done, size) ==
    IF \E i \in 1 .. size : done.c4[i] # 0
    THEN Binary("Add", size, done.expression,
                Binary("Multiply", size,
                       Binary("Multiply", size,
                              Gather(size, done.c0, done.c2),
                              Gather(size, done.c1, done.c3)),
                       Constant(size, size, done.c4)))
    ELSE IF done.expression.tag = "None"
    THEN Constant(size, size, [i \in 1 .. size |-> 0])
    ELSE done.expression

product_group_start(size) ==
    [expression |-> None(size), c0 |-> None(size), c1 |-> None(size),
     c2 |-> [i \in 1 .. size |-> <<0, 0>>],
     c3 |-> [i \in 1 .. size |-> <<0, 0>>],
     c4 |-> [i \in 1 .. size |-> 0]]

\* the expression of one result group before simplification
product_group(sorted_terms, parameter_a, parameter_b, result_class, g) ==
    product_group_sum(
        product_columns(product_group_start(Len(result_class.grouped_basis[g])),
                        Len(result_class.grouped_basis[g]), parameter_a, parameter_b, 0,
                        [x \in 1 .. Len(flat_basis(parameter_a.class)) |->
                            [i \in 1 .. Len(result_class.grouped_basis[g]) |->
                                sorted_terms[base_index(result_class.grouped_basis, g) + i][x]]]),
        Len(result_class.grouped_basis[g]))

\* a product that pushes the groups' expressions as they were built
product_implementation_unsimplified(name, parameter_a, parameter_b, result_signature, result_class, sorted_terms, raw) ==
    [Synthesis(TRUE, result_signature, result_class,
               IF raw = <<>> THEN AstNone
               ELSE TraitImplementation(
                        name, result_class, <<parameter_a, parameter_b>>,
                        [g \in 1 .. Len(raw) |-> Argument(raw[g].size, raw[g])]))
        EXCEPT !.sorted_terms = sorted_terms, !.raw = raw]

\* the node and the record of a product whose result class is held
product_implementation(name, parameter_a, parameter_b, result_signature, result_class, sorted_terms, raw) ==
    [Synthesis(TRUE, result_signature, result_class,
               IF raw = <<>> THEN AstNone
               ELSE TraitImplementation(
                        name, result_class, <<parameter_a, parameter_b>>,
                        [g \in 1 .. Len(raw) |->
                            Argument(raw[g].size, simplify_and_legalize(raw[g]))]))
        EXCEPT !.sorted_terms = sorted_terms, !.raw = raw]

product_of_class(name, terms, parameter_a, parameter_b, result_signature, result_class, sorted_terms) ==
    product_implementation(name, parameter_a, parameter_b, result_signature, result_class, sorted_terms,
                           [g \in 1 .. Len(result_class.grouped_basis) |->
                               product_group(sorted_terms, parameter_a, parameter_b, result_class, g)])

product_for_class(name, terms, parameter_a, parameter_b, result_signature, result_class) ==
    IF result_class # NoClass
    THEN product_of_class(name, terms, parameter_a, parameter_b, result_signature, result_class,
                          product_sorted_terms(terms, flat_basis(parameter_a.class),
                                               flat_basis(parameter_b.class),
                                               flat_basis(result_class)))
    ELSE Synthesis(TRUE, result_signature, NoClass, AstNone)

product_result_signature(terms, a_flat_basis, b_flat_basis, seed) ==
    sorted_indices_of(HashSet_into_iter(
        {from_index(terms[k].product.index) : k \in
            {k \in 1 .. Len(terms) :
                /\ HasIndex(a_flat_basis, terms[k].factor_a.index)
                /\ HasIndex(b_flat_basis, terms[k].factor_b.index)}}, seed))

\* the part of product after the result signature is sorted
product_for_signature(name, terms, parameter_a, parameter_b, held, map, result_signature) ==
    product_for_class(name, terms, parameter_a, parameter_b, result_signature,
                      registry_get(held, map, result_signature))

MultiVectorClass_product(name, terms, parameter_a, parameter_b, held, map, seed) ==
    product_for_signature(name, terms, parameter_a, parameter_b, held, map,
                          product_result_signature(terms, flat_basis(parameter_a.class),
                                                   flat_basis(parameter_b.class), seed))

---------------------------------------------------------------------------
(* The derived operations (compile.rs): each wraps implementations         *)
(* synthesised before in a new call tree.                                  *)

DataType_Integer == [kind |-> "Integer"]
DataType_SimdVector(size) == [kind |-> "SimdVector", size |-> size]
DataType_MultiVector(class) == [kind |-> "MultiVector", class |-> class]

\* a parameter whose data type is not a class
IntegerParameter(name) == [name |-> name, class |-> NoClass, data_type |-> DataType_Integer]
SimdParameter(name, size) ==
    [name |-> name, class |-> NoClass, data_type |-> DataType_SimdVector(size)]

InvokeClassMethod(class, method, arguments) ==
    [tag |-> "InvokeClassMethod", size |-> 1, class |-> class, method |-> method,
     arguments |-> arguments]
InvokeInstanceMethod(data_type, inner, method, arguments) ==
    [tag |-> "InvokeInstanceMethod", size |-> 1, data_type |-> data_type, inner |-> inner,
     method |-> method, arguments |-> arguments]
Conversion(source_class, destination_class, inner) ==
    [tag |-> "Conversion", size |-> 1, source_class |-> source_class,
     destination_class |-> destination_class, inner |-> inner]
Select(condition, then_expression, else_expression) ==
    [tag |-> "Select", size |-> 1, condition |-> condition,
     then_expression |-> then_expression, else_expression |-> else_expression]
SquareRoot(inner) == [tag |-> "SquareRoot", size |-> 1, inner |-> inner]
IntegerConstant(value) == Constant(1, DataType_Integer, <<value>>)

ReturnStatement(e) == [kind |-> "ReturnStatement", expression |-> e]
VariableAssignment(name, data_type, e) ==
    [kind |-> "VariableAssignment", name |-> name, data_type |-> data_type, expression |-> e]
IfThenBlock(condition, body) == [kind |-> "IfThenBlock", condition |-> condition, body |-> body]
WhileLoopBlock(condition, body) ==
    [kind |-> "WhileLoopBlock", condition |-> condition, body |-> body]

\* Option<DataType>::None of a VariableAssignment
NoDataType == [kind |-> "None"]

\* result_of_trait!: the result parameter of a TraitImplementation
result_of_trait(node) == node.result

\* the loop condition of Powi with 0 in the place of 1
power_loop_condition_from_zero ==
    Binary("LessThan", 1, IntegerConstant(0), Variable(1, "n"))

\* the loop condition of Powi: 1 < n
power_loop_condition ==
    Binary("LessThan", 1, IntegerConstant(1), Variable(1, "n"))

\* a shift that leaves n as it is
power_halving_by_zero ==
    Binary("BitShiftRight", 1, Variable(1, "n"), IntegerConstant(0))

\* the last statement of the loop of Powi assigns n >> 1
power_halving ==
    Binary("BitShiftRight", 1, Variable(1, "n"), IntegerConstant(1))

\* x.geometric_product(y) on values of the class of parameter_a
power_product(geometric_product, parameter_a, x, y) ==
    InvokeInstanceMethod(DataType_MultiVector(parameter_a.class), Variable(1, x),
                         result_of_trait(geometric_product).name,
                         <<[data_type |-> DataType_MultiVector(parameter_a.class),
                            expression |-> Variable(1, y)]>>)

derive_power_of_integer(name, geometric_product, constant_one, inverse, parameter_a, parameter_b) ==
    TraitImplementation(name, parameter_a.class, <<parameter_a, parameter_b>>,
        << IfThenBlock(Binary("Equal", 1, Variable(1, parameter_b.name), IntegerConstant(0)),
               << ReturnStatement(InvokeClassMethod(parameter_a.class,
                                                    result_of_trait(constant_one).name, <<>>)) >>),
           VariableAssignment("x", DataType_MultiVector(parameter_a.class),
               Select(Binary("LessThan", 1, Variable(1, parameter_b.name), IntegerConstant(0)),
                      InvokeInstanceMethod(DataType_MultiVector(parameter_a.class),
                                           Variable(1, parameter_a.name),
                                           result_of_trait(inverse).name, <<>>),
                      Variable(1, parameter_a.name))),
           VariableAssignment("y", DataType_MultiVector(parameter_a.class),
               InvokeClassMethod(parameter_a.class, result_of_trait(constant_one).name, <<>>)),
           VariableAssignment("n", DataType_Integer,
               InvokeInstanceMethod(DataType_Integer, Variable(1, parameter_b.name), "Abs", <<>>)),
           WhileLoopBlock(power_loop_condition,
               << IfThenBlock(Binary("Equal", 1,
                                     Binary("LogicAnd", 1, Variable(1, "n"), IntegerConstant(1)),
                                     IntegerConstant(1)),
                      << VariableAssignment("y", NoDataType,
                             power_product(geometric_product, parameter_a, "x", "y")) >>),
                  VariableAssignment("x", NoDataType,
                      power_product(geometric_product, parameter_a, "x", "x")),
                  VariableAssignment("n", NoDataType, power_halving) >>),
           ReturnStatement(power_product(geometric_product, parameter_a, "x", "y")) >>)

\* an argument of an invocation: its data type and its expression
Passed(data_type, e) == [data_type |-> data_type, expression |-> e]

\* parameter.method() on a value of the class of the parameter
invoke_on(parameter, method) ==
    InvokeInstanceMethod(DataType_MultiVector(parameter.class), Variable(1, parameter.name),
                         method, <<>>)

\* class::Constructor(lane) of a class of one lane
construct(class, lane) ==
    InvokeClassMethod(class, "Constructor", <<Passed(DataType_SimdVector(1), lane)>>)

\* 1 / expression[0]
reciprocal_of_lane(e) ==
    Binary("Divide", 1, Constant(1, 1, <<1>>), Access(1, e, 0))

derive_squared_magnitude(name, scalar_product, involution, parameter_a) ==
    TraitImplementation(name, result_of_trait(scalar_product).class, <<parameter_a>>,
        << ReturnStatement(
               InvokeInstanceMethod(DataType_MultiVector(parameter_a.class),
                   Variable(1, parameter_a.name), result_of_trait(scalar_product).name,
                   <<Passed(DataType_MultiVector(result_of_trait(involution).class),
                            invoke_on(parameter_a, result_of_trait(involution).name))>>)) >>)

derive_scale(name, geometric_product, parameter_a, parameter_b) ==
    TraitImplementation(name, result_of_trait(geometric_product).class,
        <<parameter_a, SimdParameter("other", 1)>>,
        << ReturnStatement(
               InvokeInstanceMethod(DataType_MultiVector(parameter_a.class),
                   Variable(1, parameter_a.name), result_of_trait(geometric_product).name,
                   <<Passed(DataType_MultiVector(parameter_b.class),
                            construct(parameter_b.class, Variable(1, parameter_b.name)))>>)) >>)

derive_magnitude(name, squared_magnitude, parameter_a) ==
    TraitImplementation(name, result_of_trait(squared_magnitude).class, <<parameter_a>>,
        << ReturnStatement(
               construct(result_of_trait(squared_magnitude).class,
                   SquareRoot(Access(1, invoke_on(parameter_a,
                                                  result_of_trait(squared_magnitude).name), 0)))) >>)

derive_signum(name, geometric_product, magnitude, parameter_a) ==
    TraitImplementation(name, result_of_trait(geometric_product).class, <<parameter_a>>,
        << ReturnStatement(
               InvokeInstanceMethod(DataType_MultiVector(parameter_a.class),
                   Variable(1, parameter_a.name), result_of_trait(geometric_product).name,
                   <<Passed(DataType_MultiVector(result_of_trait(magnitude).class),
                            construct(result_of_trait(magnitude).class,
                                reciprocal_of_lane(invoke_on(parameter_a,
                                    result_of_trait(magnitude).name))))>>)) >>)

derive_inverse(name, geometric_product, squared_magnitude, involution, parameter_a) ==
    TraitImplementation(name, result_of_trait(geometric_product).class, <<parameter_a>>,
        << ReturnStatement(
               InvokeInstanceMethod(DataType_MultiVector(result_of_trait(involution).class),
                   invoke_on(parameter_a, result_of_trait(involution).name),
                   result_of_trait(geometric_product).name,
                   <<Passed(DataType_MultiVector(result_of_trait(squared_magnitude).class),
                            construct(result_of_trait(squared_magnitude).class,
                                reciprocal_of_lane(invoke_on(parameter_a,
                                    result_of_trait(squared_magnitude).name))))>>)) >>)

derive_division(name, geometric_product, inverse, parameter_a, parameter_b) ==
    TraitImplementation(name, result_of_trait(geometric_product).class,
        <<parameter_a, parameter_b>>,
        << ReturnStatement(
               InvokeInstanceMethod(DataType_MultiVector(parameter_a.class),
                   Variable(1, parameter_a.name), result_of_trait(geometric_product).name,
                   <<Passed(DataType_MultiVector(result_of_trait(inverse).class),
                            invoke_on(parameter_b, result_of_trait(inverse).name))>>)) >>)

\* (a.geometric_product(b)).geometric_product_2(a.involution())
sandwich_product(geometric_product, geometric_product_2, involution, parameter_a, parameter_b) ==
    InvokeInstanceMethod(DataType_MultiVector(result_of_trait(geometric_product).class),
        InvokeInstanceMethod(DataType_MultiVector(parameter_a.class),
            Variable(1, parameter_a.name), result_of_trait(geometric_product).name,
            <<Passed(DataType_MultiVector(parameter_b.class), Variable(1, parameter_b.name))>>),
        result_of_trait(geometric_product_2).name,
        <<Passed(DataType_MultiVector(result_of_trait(involution).class),
                 invoke_on(parameter_a, result_of_trait(involution).name))>>)

\* conversion is AstNone where the source passes Option::None
derive_sandwich_product(name, geometric_product, geometric_product_2, involution, conversion, parameter_a, parameter_b) ==
    IF conversion # AstNone
    THEN TraitImplementation(name, result_of_trait(conversion).class,
             <<parameter_a, parameter_b>>,
             << ReturnStatement(
                    Conversion(result_of_trait(geometric_product_2).class,
                               result_of_trait(conversion).class,
                               sandwich_product(geometric_product, geometric_product_2,
                                                involution, parameter_a, parameter_b))) >>)
    ELSE TraitImplementation(name, result_of_trait(geometric_product_2).class,
             <<parameter_a, parameter_b>>,
             << ReturnStatement(sandwich_product(geometric_product, geometric_product_2,
                                                 involution, parameter_a, parameter_b)) >>)

---------------------------------------------------------------------------
(* main: the driver.  It registers the classes of the configuration, emits *)
(* the preamble and the class definitions, and then, class by class and    *)
(* pair by pair, synthesises, emits and records the implementations.       *)

\* BasisElement::parse of [-]e<generator_indices>, "1" having no generator
RECURSIVE parse_from(_, _, _, _)
parse_from(result, generator_indices, k, algebra) ==
    IF k > Len(generator_indices) THEN result
    ELSE parse_from(BasisElement_product(result, from_index(2 ^ generator_indices[k]), algebra),
                    generator_indices, k + 1, algebra)

BasisElement_parse(negative, generator_indices, algebra) ==
    parse_from([from_index(0) EXCEPT !.scalar = IF negative THEN -1 ELSE 1],
               generator_indices, 1, algebra)

\* the class a descriptor name:group|group declares, each element written as
\* <<negative, generator_indices>>
ParseClass(class_name, groups, algebra) ==
    [class_name |-> class_name,
     grouped_basis |-> [g \in 1 .. Len(groups) |->
                           [i \in 1 .. Len(groups[g]) |->
                               BasisElement_parse(groups[g][i][1], groups[g][i][2], algebra)]]]

\* the configurations main is run on
Named(generator_indices) == <<FALSE, generator_indices>>
Negated(generator_indices) == <<TRUE, generator_indices>>

Euclid2D ==
    [generator_squares |-> <<1, 1>>,
     descriptors |-> << <<"Scalar", << <<Named(<<>>)>> >> >>,
                        <<"Vector", << <<Named(<<0>>), Named(<<1>>)>> >> >>,
                        <<"MultiVector", << <<Named(<<>>)>>,
                                            <<Named(<<0>>), Named(<<1>>)>>,
                                            <<Named(<<0, 1>>)>> >> >> >>]

Euclid2DRotor ==
    [generator_squares |-> <<1, 1>>,
     descriptors |-> << <<"Scalar", << <<Named(<<>>)>> >> >>,
                        <<"Vector", << <<Named(<<0>>), Named(<<1>>)>> >> >>,
                        <<"Rotor", << <<Named(<<>>), Named(<<0, 1>>)>> >> >>,
                        <<"MultiVector", << <<Named(<<>>)>>,
                                            <<Named(<<0>>), Named(<<1>>)>>,
                                            <<Named(<<0, 1>>)>> >> >> >>]

Vector3D ==
    [generator_squares |-> <<1, 1, 1>>,
     descriptors |-> << <<"Vector", << <<Named(<<0>>), Named(<<1>>), Named(<<2>>)>> >> >> >>]

Complex2D ==
    [generator_squares |-> <<1, 1>>,
     descriptors |-> << <<"Scalar", << <<Named(<<>>)>> >> >>,
                        <<"Rotor", << <<Named(<<>>), Named(<<0, 1>>)>> >> >>,
                        <<"Vector", << <<Named(<<0>>), Named(<<1>>)>> >> >>,
                        <<"MultiVector", << <<Named(<<>>), Named(<<0, 1>>)>>,
                                            <<Named(<<0>>), Named(<<1>>)>> >> >> >>]

Projective2D ==
    [generator_squares |-> <<0, 1, 1>>,
     descriptors |-> << <<"Scalar", << <<Named(<<>>)>> >> >>,
                        <<"Point", << <<Named(<<1, 2>>), Named(<<0, 1>>), Negated(<<0, 2>>)>> >> >>,
                        <<"Motor", << <<Named(<<>>), Named(<<1, 2>>), Named(<<0, 1>>),
                                        Negated(<<0, 2>>)>> >> >> >>]

\* two classes of one signature: the registry answers with the later one
Rotated2D ==
    [generator_squares |-> <<1, 1>>,
     descriptors |-> << <<"Scalar", << <<Named(<<>>)>> >> >>,
                        <<"Vector", << <<Named(<<0>>), Named(<<1>>)>> >> >>,
                        <<"Rotated", << <<Named(<<1>>), Named(<<0>>)>> >> >> >>]

\* no scalar class
RotorOnly2D ==
    [generator_squares |-> <<1, 1>>,
     descriptors |-> << <<"Rotor", << <<Named(<<>>), Named(<<0, 1>>)>> >> >> >>]

\* both generators square to zero
Degenerate2D ==
    [generator_squares |-> <<0, 0>>,
     descriptors |-> << <<"Scalar", << <<Named(<<>>)>> >> >>,
                        <<"Vector", << <<Named(<<0>>), Named(<<1>>)>> >> >>,
                        <<"Bivector", << <<Named(<<0, 1>>)>> >> >> >>]

\* two classes of one signature that differ in a sign
Mirrored2D ==
    [generator_squares |-> <<1, 1>>,
     descriptors |-> << <<"Vector", << <<Named(<<0>>), Named(<<1>>)>> >> >>,
                        <<"Rotated", << <<Named(<<1>>), Negated(<<0>>)>> >> >> >>]

\* groups of unlike sizes: e012 * e0 and e012 * e1 fall into one group of Rotor
Flector3D ==
    [generator_squares |-> <<1, 1, 1>>,
     descriptors |-> << <<"Flector", << <<Named(<<0, 1, 2>>), Named(<<0>>)>> >> >>,
                        <<"Vector", << <<Named(<<0>>), Named(<<2>>)>>, <<Named(<<1>>)>> >> >>,
                        <<"Rotor", << <<Named(<<1, 2>>), Named(<<0, 2>>), Named(<<>>)>>,
                                      <<Named(<<0, 1>>)>> >> >> >>]

Configurations ==
    {Euclid2D, Euclid2DRotor, Vector3D, Complex2D, Projective2D, Rotated2D, RotorOnly2D,
     Degenerate2D, Mirrored2D, Flector3D}

\* the classes main builds from the descriptors of a configuration
DeclaredOf(config) ==
    [k \in 1 .. Len(config.descriptors) |->
        ParseClass(config.descriptors[k][1], config.descriptors[k][2], config.generator_squares)]

ConstantNames == <<"Zero", "One">>
SumNames == <<"Add", "Sub">>

InitDriver ==
    /\ \E config \in Configurations :
          /\ generator_squares = config.generator_squares
          /\ declared = DeclaredOf(config)
          /\ involutions = Involution_involutions(config.generator_squares)
          /\ products = Product_products(config.generator_squares)
    /\ IdleAlgebra
    /\ IdleRegistry
    /\ IdleSimplifier
    /\ IdleCallers
    /\ dpc = [phase |-> "register", a |-> 0, b |-> 0, k |-> 1]
    /\ emitted = <<>>
    /\ emitted_again = <<>>
    /\ single_trait_implementations = EmptyMap
    /\ inner_trait_implementations = EmptyMap
    /\ pair_trait_implementations = EmptyMap
    /\ trait_implementations = EmptyMap
    /\ last = NoCall

\* Emitter::emit: AstNode::None writes nothing
emit(written, ast_node) ==
    IF ast_node = AstNone THEN written ELSE Append(written, ast_node)

\* an insert that also records the calls that returned no node
insert_unguarded(map, name, ast_node) == HashMap_insert(map, name, ast_node)

\* if ast_node != AstNode::None { map.insert(name, ast_node) }
insert_unless_none(map, name, ast_node) ==
    IF ast_node # AstNone THEN HashMap_insert(map, name, ast_node) ELSE map

\* what main remembers of the call it made last
Call(kind, name, class_a, class_b, synthesis) ==
    [kind |-> kind, name |-> name, class_a |-> class_a, class_b |-> class_b,
     synthesis |-> synthesis, emitted_before |-> Len(emitted)]

\* the first step of the iteration for class_b (from 1) of class_a
EnterPair(a, b) ==
    [phase |-> IF classes[a] # classes[b] THEN "into" ELSE "sum", a |-> a, b |-> b, k |-> 1]

\* for multi_vector_descriptor in config_iter { registry.register(..) }
RegisterDeclared ==
    /\ dpc.phase = "register"
    /\ dpc.k <= Len(declared)
    /\ Register(declared[dpc.k])
    /\ dpc' = IF dpc.k < Len(declared) THEN [dpc EXCEPT !.k = @ + 1]
              ELSE [dpc EXCEPT !.phase = "preamble"]
    /\ UNCHANGED <<looked, declared, involutions, products, emitted, emitted_again,
                   single_trait_implementations, inner_trait_implementations,
                   pair_trait_implementations, trait_implementations, last>>
    /\ UNCHANGED <<algebraVars, simplifierVars, callerVars>>

EmitPreamble ==
    /\ dpc.phase = "preamble"
    /\ emitted' = emit(emitted, [kind |-> "Preamble"])
    /\ emitted_again' = emit(emitted_again, [kind |-> "Preamble"])
    /\ dpc' = [dpc EXCEPT !.phase = "class_definition", !.k = 1]
    /\ UNCHANGED <<declared, involutions, products, single_trait_implementations,
                   inner_trait_implementations, pair_trait_implementations,
                   trait_implementations, last>>
    /\ UNCHANGED <<algebraVars, registryVars, simplifierVars, callerVars>>

EmitClassDefinition ==
    /\ dpc.phase = "class_definition"
    /\ emitted' = emit(emitted, [kind |-> "ClassDefinition", class |-> classes[dpc.k]])
    /\ emitted_again' = emit(emitted_again, [kind |-> "ClassDefinition", class |-> classes[dpc.k]])
    /\ dpc' = IF dpc.k < Len(classes) THEN [dpc EXCEPT !.k = @ + 1]
              ELSE [phase |-> "constant", a |-> 1, b |-> 0, k |-> 1]
    /\ UNCHANGED <<declared, involutions, products, single_trait_implementations,
                   inner_trait_implementations, pair_trait_implementations,
                   trait_implementations, last>>
    /\ UNCHANGED <<algebraVars, registryVars, simplifierVars, callerVars>>

\* for name in &["Zero", "One"]
DeclareConstant ==
    /\ dpc.phase = "constant"
    /\ LET class_a == classes[dpc.a]
           name == ConstantNames[dpc.k]
           synthesis == MultiVectorClass_constant(class_a, name)
           held == IF dpc.k = 1 THEN EmptyMap ELSE single_trait_implementations
       IN /\ emitted' = emit(emitted, synthesis.node)
          /\ emitted_again' = emit(emitted_again, synthesis.node)
          /\ single_trait_implementations' = insert_unless_none(held, name, synthesis.node)
          /\ last' = Call("constant", name, class_a, NoClass, synthesis)
    /\ dpc' = IF dpc.k < Len(ConstantNames) THEN [dpc EXCEPT !.k = @ + 1]
              ELSE [dpc EXCEPT !.phase = "involution", !.k = 1]
    /\ UNCHANGED <<declared, involutions, products, inner_trait_implementations,
                   pair_trait_implementations, trait_implementations>>
    /\ UNCHANGED <<algebraVars, registryVars, simplifierVars, callerVars>>

\* for (name, involution) in involutions.iter()
ApplyInvolution ==
    /\ dpc.phase = "involution"
    /\ LET class_a == classes[dpc.a]
           name == involutions[dpc.k].name
           synthesis == MultiVectorClass_involution(name, involutions[dpc.k].terms,
                                                    Parameter("self", class_a),
                                                    classes, index_by_signature, FALSE)
       IN /\ emitted' = emit(emitted, synthesis.node)
          /\ emitted_again' = emit(emitted_again, synthesis.node)
          /\ single_trait_implementations' =
                 insert_unless_none(single_trait_implementations, name, synthesis.node)
          /\ last' = Call("involution", name, class_a, NoClass, synthesis)
    /\ dpc' = IF dpc.k < Len(involutions) THEN [dpc EXCEPT !.k = @ + 1]
              ELSE EnterPair(dpc.a, 1)
    /\ UNCHANGED <<declared, involutions, products, inner_trait_implementations,
                   pair_trait_implementations, trait_implementations>>
    /\ UNCHANGED <<algebraVars, registryVars, simplifierVars, callerVars>>

\* if class_a != class_b { "Into" }
ConvertInto ==
    /\ dpc.phase = "into"
    /\ LET class_a == classes[dpc.a]
           class_b == classes[dpc.b]
           synthesis == MultiVectorClass_involution("Into", Involution_projection(class_b),
                                                    Parameter("self", class_a),
                                                    classes, index_by_signature, TRUE)
       IN /\ emitted' = emit(emitted, synthesis.node)
          /\ emitted_again' = emit(emitted_again, synthesis.node)
          /\ inner_trait_implementations' = insert_unless_none(EmptyMap, "Into", synthesis.node)
          /\ last' = Call("into", "Into", class_a, class_b, synthesis)
    /\ pair_trait_implementations' = IF dpc.b = 1 THEN EmptyMap ELSE pair_trait_implementations
    /\ dpc' = [dpc EXCEPT !.phase = "sum", !.k = 1]
    /\ UNCHANGED <<declared, involutions, products, single_trait_implementations,
                   trait_implementations>>
    /\ UNCHANGED <<algebraVars, registryVars, simplifierVars, callerVars>>

\* the step of Sum and of Product once the signature of each run is known
SynthesisStep(kind, name, class_a, class_b, synthesis, synthesis_again, held) ==
    /\ emitted' = emit(emitted, synthesis.node)
    /\ emitted_again' = emit(emitted_again, synthesis_again.node)
    /\ inner_trait_implementations' = insert_unless_none(held, name, synthesis.node)
    /\ last' = Call(kind, name, class_a, class_b, synthesis)

\* for name in &["Add", "Sub"]
Sum ==
    /\ dpc.phase = "sum"
    /\ \E result_signature, signature_again \in
              {element_wise_result_signature(flat_basis(classes[dpc.a]),
                                             flat_basis(classes[dpc.b]), seed) :
                  seed \in HashSeeds} :
          SynthesisStep("sum", SumNames[dpc.k], classes[dpc.a], classes[dpc.b],
              element_wise_for_signature(SumNames[dpc.k], Parameter("self", classes[dpc.a]),
                  Parameter("other", classes[dpc.b]), classes, index_by_signature,
                  result_signature),
              element_wise_for_signature(SumNames[dpc.k], Parameter("self", classes[dpc.a]),
                  Parameter("other", classes[dpc.b]), classes, index_by_signature,
                  signature_again),
              IF dpc.k = 1 /\ classes[dpc.a] = classes[dpc.b]
              THEN EmptyMap ELSE inner_trait_implementations)
    /\ pair_trait_implementations' =
           IF dpc.k = 1 /\ classes[dpc.a] = classes[dpc.b] /\ dpc.b = 1
           THEN EmptyMap ELSE pair_trait_implementations
    /\ dpc' = IF dpc.k < Len(SumNames) THEN [dpc EXCEPT !.k = @ + 1]
              ELSE [dpc EXCEPT !.phase = "product", !.k = 1]
    /\ UNCHANGED <<declared, involutions, products, single_trait_implementations,
                   trait_implementations>>
    /\ UNCHANGED <<algebraVars, registryVars, simplifierVars, callerVars>>

\* pair_trait_implementations.insert(class_b.class_name, (parameter_b, trait_implementations))
insert_pair(pairs, class_b, inner) ==
    HashMap_insert(pairs, class_b.class_name,
                   [parameter |-> Parameter("other", class_b), implementations |-> inner])

\* for (name, product) in products.iter(), and after the last of them the
\* insert that closes the iteration for class_b
Product ==
    /\ dpc.phase = "product"
    /\ \E result_signature, signature_again \in
              {product_result_signature(products[dpc.k].terms, flat_basis(classes[dpc.a]),
                                        flat_basis(classes[dpc.b]), seed) :
                  seed \in HashSeeds} :
          SynthesisStep("product", products[dpc.k].name, classes[dpc.a], classes[dpc.b],
              product_for_signature(products[dpc.k].name, products[dpc.k].terms,
                  Parameter("self", classes[dpc.a]), Parameter("other", classes[dpc.b]),
                  classes, index_by_signature, result_signature),
              product_for_signature(products[dpc.k].name, products[dpc.k].terms,
                  Parameter("self", classes[dpc.a]), Parameter("other", classes[dpc.b]),
                  classes, index_by_signature, signature_again),
              inner_trait_implementations)
    /\ pair_trait_implementations' =
           IF dpc.k = Len(products)
           THEN insert_pair(pair_trait_implementations, classes[dpc.b],
                            inner_trait_implementations')
           ELSE pair_trait_implementations
    /\ dpc' = IF dpc.k < Len(products) THEN [dpc EXCEPT !.k = @ + 1]
              ELSE IF dpc.b < Len(classes) THEN EnterPair(dpc.a, dpc.b + 1)
              ELSE [dpc EXCEPT !.phase = "magnitude", !.k = 1]
    /\ UNCHANGED <<declared, involutions, products, single_trait_implementations,
                   trait_implementations>>
    /\ UNCHANGED <<algebraVars, registryVars, simplifierVars, callerVars>>

\* String::cmp on the class names of the configurations: their ascending order
NameOrder ==
    <<"Bivector", "Flector", "Motor", "MultiVector", "Point", "Rotated", "Rotor", "Scalar", "Vector">>

name_rank(name) == CHOOSE k \in 1 .. Len(NameOrder) : NameOrder[k] = name

\* BTreeMap::values: the keys of a map in ascending order
RECURSIVE ordered_names(_)
ordered_names(names) ==
    IF names = {} THEN <<>>
    ELSE LET first == CHOOSE name \in names :
                          \A other \in names : name_rank(name) <= name_rank(other)
         IN <<first>> \o ordered_names(names \ {first})

ordered_keys(map) == ordered_names(DOMAIN map)

RECURSIVE emit_all(_, _)
emit_all(written, ast_nodes) ==
    IF ast_nodes = <<>> THEN written
    ELSE emit_all(emit(written, Head(ast_nodes)), Tail(ast_nodes))

\* single_trait_implementations.insert(result_of_trait!(node).name, node), node by node
RECURSIVE insert_all(_, _)
insert_all(map, ast_nodes) ==
    IF ast_nodes = <<>> THEN map
    ELSE insert_all(HashMap_insert(map, result_of_trait(Head(ast_nodes)).name, Head(ast_nodes)),
                    Tail(ast_nodes))

NoSynthesis == Synthesis(FALSE, <<>>, NoClass, AstNone)

\* what main remembers of an iteration of the derivations: the nodes it emitted
Derivation(kind, class_a, class_b, ast_nodes) ==
    [kind |-> kind, name |-> kind, class_a |-> class_a, class_b |-> class_b,
     synthesis |-> NoSynthesis, emitted_before |-> Len(emitted), derived |-> ast_nodes]

\* the squared magnitude and the magnitude made of it
magnitudes_of(squared_magnitude, parameter_a) ==
    <<squared_magnitude, derive_magnitude("Magnitude", squared_magnitude, parameter_a)>>

\* one iteration of the first loop over pair_trait_implementations.values()
derived_magnitudes(single, parameter_a, parameter_b, inner) ==
    IF /\ "ScalarProduct" \in DOMAIN inner
       /\ "Reversal" \in DOMAIN single
       /\ parameter_a.class = parameter_b.class
    THEN magnitudes_of(derive_squared_magnitude("SquaredMagnitude", inner["ScalarProduct"],
                                                single["Reversal"], parameter_a),
                       parameter_a)
    ELSE <<>>

DeriveStep(kind, class_a, class_b, ast_nodes) ==
    /\ emitted' = emit_all(emitted, ast_nodes)
    /\ emitted_again' = emit_all(emitted_again, ast_nodes)
    /\ last' = Derivation(kind, class_a, class_b, ast_nodes)

\* for (parameter_b, pair_trait_implementations) in pair_trait_implementations.values():
\* SquaredMagnitude and Magnitude
DeriveMagnitudes ==
    /\ dpc.phase = "magnitude"
    /\ \E ast_nodes \in
              {derived_magnitudes(single_trait_implementations, Parameter("self", classes[dpc.a]),
                   pair_trait_implementations[ordered_keys(pair_trait_implementations)[dpc.k]].parameter,
                   pair_trait_implementations[ordered_keys(pair_trait_implementations)[dpc.k]].implementations)} :
          /\ DeriveStep("magnitude", classes[dpc.a],
                 pair_trait_implementations[ordered_keys(pair_trait_implementations)[dpc.k]].parameter.class,
                 ast_nodes)
          /\ single_trait_implementations' = insert_all(single_trait_implementations, ast_nodes)
    /\ dpc' = IF dpc.k < Len(ordered_keys(pair_trait_implementations))
              THEN [dpc EXCEPT !.k = @ + 1]
              ELSE [dpc EXCEPT !.phase = "scale", !.k = 1]
    /\ UNCHANGED <<declared, involutions, products, inner_trait_implementations,
                   pair_trait_implementations, trait_implementations>>
    /\ UNCHANGED <<algebraVars, registryVars, simplifierVars, callerVars>>

\* the scalar class: grouped_basis == vec![vec![BasisElement::from_index(0)]]
is_scalar_class(class) == class.grouped_basis = << <<from_index(0)>> >>

signum_of(single, geometric_product, parameter_a) ==
    IF "Magnitude" \in DOMAIN single
    THEN <<derive_signum("Signum", geometric_product, single["Magnitude"], parameter_a)>>
    ELSE <<>>

inverse_of(single, geometric_product, parameter_a) ==
    IF "SquaredMagnitude" \in DOMAIN single /\ "Reversal" \in DOMAIN single
    THEN <<derive_inverse("Inverse", geometric_product, single["SquaredMagnitude"],
                          single["Reversal"], parameter_a)>>
    ELSE <<>>

\* one iteration of the second loop: the nodes inserted into the single map
derived_kept(single, parameter_a, parameter_b, inner) ==
    IF "GeometricProduct" \in DOMAIN inner /\ is_scalar_class(parameter_b.class)
    THEN signum_of(single, inner["GeometricProduct"], parameter_a)
             \o inverse_of(single, inner["GeometricProduct"], parameter_a)
    ELSE <<>>

\* Scale for every class but the scalar class itself
derived_scale_unless_self(parameter_a, parameter_b, inner) ==
    IF /\ "GeometricProduct" \in DOMAIN inner
       /\ is_scalar_class(parameter_b.class)
       /\ parameter_a.class # parameter_b.class
    THEN <<derive_scale("Scale", inner["GeometricProduct"], parameter_a, parameter_b)>>
    ELSE <<>>

\* one iteration of the second loop: Scale, which no map keeps
derived_scale(parameter_a, parameter_b, inner) ==
    IF "GeometricProduct" \in DOMAIN inner /\ is_scalar_class(parameter_b.class)
    THEN <<derive_scale("Scale", inner["GeometricProduct"], parameter_a, parameter_b)>>
    ELSE <<>>

\* trait_implementations.insert(class_a.class_name, (parameter_a, single, pair))
insert_class(map, class_a, single, pairs) ==
    HashMap_insert(map, class_a.class_name,
                   [parameter |-> Parameter("self", class_a), single |-> single, pair |-> pairs])

\* for (parameter_b, pair_trait_implementations) in pair_trait_implementations.values():
\* Scale, Signum and Inverse, and after the last of them the insert that closes
\* the iteration for class_a
DeriveScaled ==
    /\ dpc.phase = "scale"
    /\ \E entry \in {pair_trait_implementations[ordered_keys(pair_trait_implementations)[dpc.k]]} :
       \E kept \in {derived_kept(single_trait_implementations, Parameter("self", classes[dpc.a]),
                                 entry.parameter, entry.implementations)} :
          /\ DeriveStep("scale", classes[dpc.a], entry.parameter.class,
                 derived_scale(Parameter("self", classes[dpc.a]), entry.parameter,
                               entry.implementations) \o kept)
          /\ single_trait_implementations' = insert_all(single_trait_implementations, kept)
    /\ trait_implementations' =
           IF dpc.k = Len(ordered_keys(pair_trait_implementations))
           THEN insert_class(trait_implementations, classes[dpc.a],
                             single_trait_implementations', pair_trait_implementations)
           ELSE trait_implementations
    /\ dpc' = IF dpc.k < Len(ordered_keys(pair_trait_implementations))
              THEN [dpc EXCEPT !.k = @ + 1]
              ELSE IF dpc.a < Len(classes)
              THEN [phase |-> "constant", a |-> dpc.a + 1, b |-> 0, k |-> 1]
              ELSE [phase |-> "composed", a |-> 1, b |-> 1, k |-> 1]
    /\ UNCHANGED <<declared, involutions, products, inner_trait_implementations,
                   pair_trait_implementations>>
    /\ UNCHANGED <<algebraVars, registryVars, simplifierVars, callerVars>>

\* Powi for every pair whose product closes on class_a
power_of_any_pair(single, geometric_product, parameter_a, parameter_b) ==
    IF /\ result_of_trait(geometric_product).class = parameter_a.class
       /\ "One" \in DOMAIN single
       /\ "Inverse" \in DOMAIN single
    THEN <<derive_power_of_integer("Powi", geometric_product, single["One"], single["Inverse"],
                                   parameter_a, IntegerParameter("exponent"))>>
    ELSE <<>>

power_of(single, geometric_product, parameter_a, parameter_b) ==
    IF /\ parameter_a.class = parameter_b.class
       /\ result_of_trait(geometric_product).class = parameter_a.class
       /\ "One" \in DOMAIN single
       /\ "Inverse" \in DOMAIN single
    THEN <<derive_power_of_integer("Powi", geometric_product, single["One"], single["Inverse"],
                                   parameter_a, IntegerParameter("exponent"))>>
    ELSE <<>>

division_of(all, geometric_product, parameter_a, parameter_b) ==
    IF /\ parameter_b.class.class_name \in DOMAIN all
       /\ "Inverse" \in DOMAIN all[parameter_b.class.class_name].single
    THEN <<derive_division("GeometricQuotient", geometric_product,
                           all[parameter_b.class.class_name].single["Inverse"],
                           parameter_a, parameter_b)>>
    ELSE <<>>

\* c_pair_trait_implementations.1.get("Into")
conversion_of(c_pair) ==
    IF "Into" \in DOMAIN c_pair.implementations THEN c_pair.implementations["Into"] ELSE AstNone

transformation_from(all, geometric_product, geometric_product_2, reversal, parameter_a, parameter_b) ==
    IF /\ result_of_trait(geometric_product_2).class.class_name \in DOMAIN all
       /\ parameter_b.class.class_name
              \in DOMAIN all[result_of_trait(geometric_product_2).class.class_name].pair
    THEN <<derive_sandwich_product("Transformation", geometric_product, geometric_product_2,
               reversal,
               conversion_of(all[result_of_trait(geometric_product_2).class.class_name]
                                 .pair[parameter_b.class.class_name]),
               parameter_a, parameter_b)>>
    ELSE <<>>

transformation_of(all, single, geometric_product, parameter_a, parameter_b) ==
    IF /\ "Reversal" \in DOMAIN single
       /\ result_of_trait(geometric_product).class.class_name \in DOMAIN all
       /\ parameter_a.class.class_name
              \in DOMAIN all[result_of_trait(geometric_product).class.class_name].pair
       /\ "GeometricProduct"
              \in DOMAIN all[result_of_trait(geometric_product).class.class_name]
                             .pair[parameter_a.class.class_name].implementations
    THEN transformation_from(all, geometric_product,
             all[result_of_trait(geometric_product).class.class_name]
                 .pair[parameter_a.class.class_name].implementations["GeometricProduct"],
             single["Reversal"], parameter_a, parameter_b)
    ELSE <<>>

\* one iteration of the last loops of main, for one class_a and one class_b
derived_composed(all, single, parameter_a, parameter_b, inner) ==
    IF "GeometricProduct" \in DOMAIN inner
    THEN power_of(single, inner["GeometricProduct"], parameter_a, parameter_b)
             \o division_of(all, inner["GeometricProduct"], parameter_a, parameter_b)
             \o transformation_of(all, single, inner["GeometricProduct"], parameter_a, parameter_b)
    ELSE <<>>

\* for (parameter_a, single, pair) in trait_implementations.values() and
\* for (parameter_b, pair_trait_implementations) in pair.values():
\* Powi, GeometricQuotient and Transformation
DeriveComposed ==
    /\ dpc.phase = "composed"
    /\ \E of_a \in {trait_implementations[ordered_keys(trait_implementations)[dpc.a]]} :
       \E of_b \in {of_a.pair[ordered_keys(of_a.pair)[dpc.b]]} :
          /\ DeriveStep("composed", of_a.parameter.class, of_b.parameter.class,
                 derived_composed(trait_implementations, of_a.single, of_a.parameter,
                                  of_b.parameter, of_b.implementations))
          /\ dpc' = IF dpc.b < Len(ordered_keys(of_a.pair)) THEN [dpc EXCEPT !.b = @ + 1]
                    ELSE IF dpc.a < Len(ordered_keys(trait_implementations))
                    THEN [dpc EXCEPT !.a = @ + 1, !.b = 1]
                    ELSE [dpc EXCEPT !.phase = "done"]
    /\ UNCHANGED <<declared, involutions, products, single_trait_implementations,
                   inner_trait_implementations, pair_trait_implementations,
                   trait_implementations>>
    /\ UNCHANGED <<algebraVars, registryVars, simplifierVars, callerVars>>

NextDriver ==
    \/ RegisterDeclared
    \/ EmitPreamble
    \/ EmitClassDefinition
    \/ DeclareConstant
    \/ ApplyInvolution
    \/ ConvertInto
    \/ Sum
    \/ Product
    \/ DeriveMagnitudes
    \/ DeriveScaled
    \/ DeriveComposed

SpecDriver == InitDriver /\ [][NextDriver]_vars

---------------------------------------------------------------------------
(* Claims about the synthesiser and the driver                             *)

\* the lanes of a class as groups, given one value per flat position
GroupsOf(class, flat_values) ==
    [g \in 1 .. Len(class.grouped_basis) |->
        [i \in 1 .. Len(class.grouped_basis[g]) |->
            flat_values[base_index(class.grouped_basis, g) + i]]]

Env(class_a, values_a, class_b, values_b) ==
    [name \in {"self", "other"} |->
        IF name = "self" THEN GroupsOf(class_a, values_a) ELSE GroupsOf(class_b, values_b)]

Unit(n, x, v) == [i \in 1 .. n |-> IF i = x THEN v ELSE 0]

\* every operand pair with one lane set on each side, and one with every lane set
\* to a value of its own
ProductEnvs(class_a, class_b) ==
    LET na == Len(flat_basis(class_a))
        nb == Len(flat_basis(class_b))
    IN {Env(class_a, Unit(na, x, va), class_b, Unit(nb, j, vb)) :
            x \in 1 .. na, j \in 1 .. nb, va \in 1 .. MaxLaneValue, vb \in 1 .. MaxLaneValue}
       \cup {Env(class_a, [i \in 1 .. na |-> i + 1], class_b, [j \in 1 .. nb |-> na + j + 2])}

\* the terms summed into a group's expression, left to right
RECURSIVE AddTerms(_)
AddTerms(e) ==
    IF e.tag = "Add" THEN AddTerms(e.a) \o <<e.b>>
    ELSE IF e.tag = "Multiply" THEN <<e>>
    ELSE <<>>

IsOwnTerm(t) ==
    /\ t.tag = "Multiply" /\ t.a.tag = "Gather" /\ t.b.tag = "Multiply"
    /\ t.b.a.tag = "Gather" /\ t.b.b.tag = "Constant"

IsContractionTerm(t) ==
    /\ t.tag = "Multiply" /\ t.a.tag = "Multiply" /\ t.b.tag = "Constant"
    /\ t.a.a.tag = "Gather" /\ t.a.b.tag = "Gather"

\* lane i of a term: the pair gathered from A, the pair gathered from B, the constant
TermLane(t, i) ==
    IF IsOwnTerm(t)
    THEN [a |-> t.a.indices[i], b |-> t.b.a.indices[i], c |-> t.b.b.values[i]]
    ELSE [a |-> t.a.a.indices[i], b |-> t.a.b.indices[i], c |-> t.b.values[i]]

ProductCall ==
    /\ last.kind = "product"
    /\ last.synthesis.result_class # NoClass

\* the row of the sum-of-pairs matrix for lane i of group g of the result
RowOf(g, i) == base_index(last.synthesis.result_class.grouped_basis, g) + i

\* lane i of term t of group g realises the entry of column x
Realises(t, g, i, x) ==
    LET entry == last.synthesis.sorted_terms[RowOf(g, i)][x]
        lane == TermLane(t, i)
    IN /\ lane.c # 0
       /\ lane.a = index_in_group(last.class_a, x - 1)

RealisedWell(t, g, i, x) ==
    LET entry == last.synthesis.sorted_terms[RowOf(g, i)][x]
        lane == TermLane(t, i)
        size == Len(last.synthesis.result_class.grouped_basis[g])
    IN /\ lane.b = index_in_group(last.class_b, entry.index_in_b)
       /\ lane.c = entry.factor
       /\ IsOwnTerm(t) =>
             \A l \in 1 .. size : t.a.indices[l] = index_in_group(last.class_a, x - 1)

RECURSIVE SumSeq(_)
SumSeq(seq) == IF seq = <<>> THEN 0 ELSE Head(seq) + SumSeq(Tail(seq))

ExpectedLane(g, i, env) ==
    LET row == last.synthesis.sorted_terms[RowOf(g, i)]
        a == Flatten(env["self"])
        b == Flatten(env["other"])
    IN SumSeq([x \in 1 .. Len(row) |-> row[x].factor * a[x] * b[row[x].index_in_b + 1]])

\* C1: in every group of a product's result each non-zero entry M[y][x] is lane y
\* of exactly one term, column x's own term or the one contraction term, with the
\* pair of lane x of A, the pair of lane M[y][x].b of B and the coefficient; every
\* other lane of a term has constant 0; and lane y evaluates to the sum over x of
\* coefficient * A[x] * B[M[y][x].b], before and after simplification
C1_EntriesRealisedOnce ==
    ProductCall =>
        \A g \in 1 .. Len(last.synthesis.raw) :
            LET terms == AddTerms(last.synthesis.raw[g])
                size == Len(last.synthesis.result_class.grouped_basis[g])
                width == Len(flat_basis(last.class_a))
            IN /\ \A k \in 1 .. Len(terms) : IsOwnTerm(terms[k]) \/ IsContractionTerm(terms[k])
               /\ Cardinality({k \in 1 .. Len(terms) : IsContractionTerm(terms[k])}) <= 1
               /\ \A i \in 1 .. size :
                     /\ \A x \in 1 .. width :
                           last.synthesis.sorted_terms[RowOf(g, i)][x].factor # 0 =>
                               /\ Cardinality({k \in 1 .. Len(terms) :
                                                  Realises(terms[k], g, i, x)}) = 1
                               /\ \A k \in 1 .. Len(terms) :
                                     Realises(terms[k], g, i, x) =>
                                         RealisedWell(terms[k], g, i, x)
                     /\ \A k \in 1 .. Len(terms) :
                           TermLane(terms[k], i).c # 0 =>
                               \E x \in 1 .. width :
                                   /\ last.synthesis.sorted_terms[RowOf(g, i)][x].factor # 0
                                   /\ Realises(terms[k], g, i, x)
               /\ \A env \in ProductEnvs(last.class_a, last.class_b) :
                     /\ Eval(last.synthesis.raw[g], env)
                            = [i \in 1 .. size |-> ExpectedLane(g, i, env)]
                     /\ Eval(last.synthesis.node.body[g].expression, env)
                            = [i \in 1 .. size |-> ExpectedLane(g, i, env)]

\* a product whose group has, in one lane, both a column term and the contraction
C1_Witness ==
    /\ ProductCall
    /\ \E g \in 1 .. Len(last.synthesis.raw) :
          LET terms == AddTerms(last.synthesis.raw[g])
          IN /\ Len(last.synthesis.result_class.grouped_basis[g]) > 1
             /\ \E k \in 1 .. Len(terms) : IsOwnTerm(terms[k])
             /\ \E k \in 1 .. Len(terms) :
                   /\ IsContractionTerm(terms[k])
                   /\ \E i, j \in 1 .. Len(terms[k].b.values) :
                         /\ terms[k].a.a.indices[i] # terms[k].a.a.indices[j]
                         /\ terms[k].b.values[i] # 0 /\ terms[k].b.values[j] # 0

\* the lane of a body that holds the basis element `index` of the result class
LaneOfIndex(node, index, env) ==
    LET groups == node.result.class.grouped_basis
        g == CHOOSE h \in 1 .. Len(groups) : HasIndex(groups[h], index)
        i == Position(groups[g], LAMBDA el : el.index = index)
    IN Eval(node.body[g].expression, env)[i]

VectorProductCall(config) ==
    /\ declared = DeclaredOf(config)
    /\ last.kind = "product"
    /\ last.name = "GeometricProduct"
    /\ last.class_a.class_name = "Vector"
    /\ last.class_b.class_name = "Vector"

SignedLaneValues == (0 - MaxLaneValue) .. MaxLaneValue

VectorEnvs ==
    {Env(last.class_a, <<a0, a1>>, last.class_b, <<b0, b1>>) :
        a0 \in SignedLaneValues, a1 \in SignedLaneValues,
        b0 \in SignedLaneValues, b1 \in SignedLaneValues}

\* the scalar lane is a.e0*b.e0 + a.e1*b.e1, the e01 lane a.e0*b.e1 - a.e1*b.e0
VectorProductLanes(node) ==
    \A env \in VectorEnvs :
        LET a == env["self"][1]
            b == env["other"][1]
        IN /\ LaneOfIndex(node, 0, env) = a[1] * b[1] + a[2] * b[2]
           /\ LaneOfIndex(node, 3, env) = a[1] * b[2] - a[2] * b[1]

\* C2 as stated: with Scalar:1, Vector:e0,e1 and MultiVector:1|e0,e1|e01 declared,
\* GeometricProduct(Vector, Vector) yields an implementation into MultiVector whose
\* scalar lane is a.e0*b.e0 + a.e1*b.e1 and whose e01 lane is a.e0*b.e1 - a.e1*b.e0
C2_ClosesIntoMultiVector ==
    VectorProductCall(Euclid2D) =>
        /\ last.synthesis.node # AstNone
        /\ last.synthesis.node.result.class.class_name = "MultiVector"
        /\ VectorProductLanes(last.synthesis.node)

\* C2 amended: with those three classes GeometricProduct(Vector, Vector) has the
\* signature [1, e01] of no declared class and yields no implementation; with
\* Rotor:1,e01 declared as well it yields an implementation into Rotor with those
\* two lanes
C2_ClosesIntoExactClass ==
    /\ VectorProductCall(Euclid2D) =>
          /\ last.synthesis.signature = <<0, 3>>
          /\ last.synthesis.node = AstNone
    /\ VectorProductCall(Euclid2DRotor) =>
          /\ last.synthesis.node # AstNone
          /\ last.synthesis.node.result.class.class_name = "Rotor"
          /\ VectorProductLanes(last.synthesis.node)

C2_Witness ==
    /\ VectorProductCall(Euclid2DRotor)
    /\ last.synthesis.node # AstNone
    /\ \E n \in 1 .. Len(emitted) : emitted[n] = last.synthesis.node

\* the calls that asked the registry for a result class
LookupCall ==
    /\ last.kind \in {"involution", "into", "sum", "product"}
    /\ last.synthesis.looked_up

Wanted == {last.synthesis.signature[i] : i \in 1 .. Len(last.synthesis.signature)}

Containing == {k \in 1 .. Len(classes) : Wanted \subseteq IndicesOf(classes[k])}

Matching == {k \in 1 .. Len(classes) : IsSignatureOf(last.synthesis.signature, classes[k])}

\* C3 as stated: the lookup returns the minimal declared class containing every
\* index of the computed set, and no class only when no declared class contains
\* them all
C3_MinimalContaining ==
    LookupCall =>
        /\ last.synthesis.result_class = NoClass <=> Containing = {}
        /\ last.synthesis.result_class # NoClass =>
              \E k \in Containing :
                  /\ classes[k] = last.synthesis.result_class
                  /\ \A j \in Containing :
                        Cardinality(IndicesOf(classes[k])) <= Cardinality(IndicesOf(classes[j]))

\* C3 amended: the lookup returns the declared class whose signature is exactly the
\* computed sorted index list (the last registered of them), and no class whenever
\* no declared class has exactly that signature
C3_ExactSignature ==
    LookupCall =>
        IF Matching = {} THEN last.synthesis.result_class = NoClass
        ELSE last.synthesis.result_class
                 = classes[CHOOSE k \in Matching : \A j \in Matching : j <= k]

\* a lookup that fails although a declared class contains every index asked for
C3_Witness ==
    /\ LookupCall
    /\ Wanted # {}
    /\ Containing # {}
    /\ Matching = {}
    /\ last.synthesis.result_class = NoClass

\* the map main records the last call's node in
RecordedIn ==
    IF last.kind \in {"constant", "involution"} THEN single_trait_implementations
    ELSE inner_trait_implementations

IsImplementationOf(ast_node, name) ==
    /\ ast_node.kind = "TraitImplementation"
    /\ ast_node.result.name = name

\* C4: when the result signature of an involution, element-wise operation or
\* product is the signature of no registered class, the synthesiser returns
\* AstNode::None, nothing is emitted for it and main records nothing under its
\* name; with Vector:e0,e1,e2 the only class of a three-generator algebra no
\* OuterProduct(Vector, Vector) is produced
C4_MissingClassNothingProduced ==
    /\ (LookupCall /\ Matching = {}) =>
          /\ last.synthesis.node = AstNone
          /\ Len(emitted) = last.emitted_before
          /\ last.name \notin DOMAIN RecordedIn
    /\ declared = DeclaredOf(Vector3D) =>
          /\ \A n \in 1 .. Len(emitted) : ~IsImplementationOf(emitted[n], "OuterProduct")
          /\ "OuterProduct" \notin DOMAIN inner_trait_implementations
          /\ \A a \in DOMAIN trait_implementations :
                \A b \in DOMAIN trait_implementations[a].pair :
                    "OuterProduct" \notin DOMAIN trait_implementations[a].pair[b].implementations

\* main has asked for OuterProduct(Vector, Vector) in the algebra with Vector alone
C4_Witness ==
    /\ declared = DeclaredOf(Vector3D)
    /\ last.kind = "product"
    /\ last.name = "OuterProduct"
    /\ last.synthesis.signature = <<3, 5, 6>>
    /\ Matching = {}
    /\ dpc.phase = "product" /\ dpc.k > 3

---------------------------------------------------------------------------
(* Claims about BasisElement::product, stated on sets of generators        *)

Generators(element) == {i \in 0 .. (BitWidth - 1) : (element.index \div (2 ^ i)) % 2 = 1}

RECURSIVE SquaresOver(_, _)
SquaresOver(S, algebra) ==
    IF S = {} THEN 1
    ELSE LET i == CHOOSE j \in S : TRUE IN algebra[i + 1] * SquaresOver(S \ {i}, algebra)

RECURSIVE SumOver(_, _)
SumOver(S, f) ==
    IF S = {} THEN 0
    ELSE LET i == CHOOSE j \in S : TRUE IN f[i] + SumOver(S \ {i}, f)

Sign(c) == IF c % 2 = 0 THEN 1 ELSE -1

IndexOf(S) == SumOver(S, [i \in S |-> 2 ^ i])

\* the count of C6 as the claim words it: every term reads the operands' own indices
StaticCount(a, b) ==
    LET A == Generators(a)
        B == Generators(b)
    IN SumOver(A, [i \in A |-> Cardinality({j \in A : j > i} \cup {j \in B : j < i})])

\* the count with the second operand as it stands when bit i is visited: b.index
\* XOR the bits of a.index below i
RunningCount(a, b) ==
    LET A == Generators(a)
        B == Generators(b)
    IN SumOver(A, [i \in A |->
            Cardinality({j \in A : j > i}
                        \cup {j \in 0 .. (BitWidth - 1) : j < i /\ ((j \in A) # (j \in B))})])

\* C5: (a*b)*c and a*(b*c) have the same index and the same scalar
C5_Associative ==
    apc = "done" => /\ results.ab_c.index = results.a_bc.index
                    /\ results.ab_c.scalar = results.a_bc.scalar

C5_Witness ==
    /\ apc = "done"
    /\ Len(generator_squares) = 3
    /\ grade(el_a) >= 2 /\ grade(el_b) >= 2 /\ grade(el_c) >= 2
    /\ el_a.index # el_b.index /\ el_b.index # el_c.index
    /\ results.ab_c.scalar = -1
    /\ results.ab.scalar = 1

\* C6 as claimed: index = a.index XOR b.index and scalar = a.scalar * b.scalar *
\* (-1)^c * (squares of the shared generators), c counted on a.index and b.index
C6_StaticCount ==
    apc = "done" =>
        /\ results.ab.index = IndexOf((Generators(el_a) \ Generators(el_b))
                                       \cup (Generators(el_b) \ Generators(el_a)))
        /\ results.ab.scalar = el_a.scalar * el_b.scalar * Sign(StaticCount(el_a, el_b))
                                 * SquaresOver(Generators(el_a) \cap Generators(el_b), generator_squares)

\* C6 amended: the same, c counted with, at bit i, the second operand being
\* b.index XOR the bits of a.index below i
C6_RunningCount ==
    apc = "done" =>
        /\ results.ab.index = IndexOf((Generators(el_a) \ Generators(el_b))
                                       \cup (Generators(el_b) \ Generators(el_a)))
        /\ results.ab.scalar = el_a.scalar * el_b.scalar * Sign(RunningCount(el_a, el_b))
                                 * SquaresOver(Generators(el_a) \cap Generators(el_b), generator_squares)

C6_Witness ==
    /\ apc = "done"
    /\ grade(el_a) >= 2
    /\ Generators(el_a) \cap Generators(el_b) # {}
    /\ Generators(el_b) \ Generators(el_a) # {}
    /\ StaticCount(el_a, el_b) % 2 # RunningCount(el_a, el_b) % 2
    /\ results.ab.scalar = -1

\* C7 as claimed: a*a has index 0 and scalar the product of the squares of a's generators
C7_SquareIsSquares ==
    apc = "done" =>
        /\ results.aa.index = 0
        /\ results.aa.scalar = SquaresOver(Generators(el_a), generator_squares)

\* C7 amended: a*a has index 0 and scalar (-1)^(k(k-1)/2) times the product of the
\* squares of a's generators, k the grade of a
C7_SquareIsSignedSquares ==
    apc = "done" =>
        /\ results.aa.index = 0
        /\ results.aa.scalar = Sign((grade(el_a) * (grade(el_a) - 1)) \div 2)
                                 * SquaresOver(Generators(el_a), generator_squares)

C7_Witness ==
    /\ apc = "done"
    /\ grade(el_a) = 2
    /\ el_a.scalar = -1
    /\ results.aa.scalar = 1
    /\ \E i \in Generators(el_a) : generator_squares[i + 1] = -1


---------------------------------------------------------------------------
(* The table caller: builds the involution and product tables of an       *)
(* algebra as main does, then hands a signed element to every involution  *)
(* table and to BasisElement::dual, once and twice.                       *)

\* the table of that name in the list Involution::involutions or Product::products returns
table_named(tables, name) ==
    (CHOOSE entry \in {tables[k] : k \in 1 .. Len(tables)} : entry.name = name).terms

\* what the synthesiser reads off a table for an element: the term whose in_element
\* has its index, the out index, and the factor out_element.scalar * in_element.scalar
involution_apply(terms, element) ==
    LET at == Position(terms, LAMBDA t : t.in.index = element.index)
    IN [scalar |-> terms[at].out.scalar * terms[at].in.scalar * element.scalar,
        index |-> terms[at].out.index]

InvolutionNames == {"Neg", "Automorphism", "Reversal", "Conjugation", "Dual"}

InitTables ==
    /\ generator_squares \in Algebras
    /\ el_a = from_index(0) /\ el_b = from_index(0) /\ el_c = from_index(0)
    /\ results = NoResults
    /\ apc = "idle"
    /\ IdleRegistry
    /\ IdleSimplifier
    /\ declared = <<>>
    /\ involutions = <<>>
    /\ products = <<>>
    /\ dpc = [phase |-> "idle", a |-> 0, b |-> 0, k |-> 0]
    /\ emitted = <<>>
    /\ emitted_again = <<>>
    /\ single_trait_implementations = EmptyMap
    /\ inner_trait_implementations = EmptyMap
    /\ pair_trait_implementations = EmptyMap
    /\ trait_implementations = EmptyMap
    /\ last = NoCall
    /\ table_element = from_index(0)
    /\ applied = NoApplied
    /\ tpc = "start"
    /\ IdleParse
    /\ IdleMachine

\* main: the two table constructors
BuildTables ==
    /\ tpc = "start"
    /\ involutions' = Involution_involutions(generator_squares)
    /\ products' = Product_products(generator_squares)
    /\ tpc' = "built"
    /\ UNCHANGED <<table_element, applied, parseVars, machineVars>>
    /\ UNCHANGED <<declared, dpc, emitted, emitted_again, single_trait_implementations,
                   inner_trait_implementations, pair_trait_implementations,
                   trait_implementations, last>>
    /\ UNCHANGED <<algebraVars, registryVars, simplifierVars>>

ApplyTables ==
    /\ tpc = "built"
    /\ \E element \in SignedElements(generator_squares) :
          /\ table_element' = element
          /\ applied' =
                [once |-> [name \in InvolutionNames |->
                              involution_apply(table_named(involutions, name), element)],
                 twice |-> [name \in InvolutionNames |->
                              involution_apply(table_named(involutions, name),
                                  involution_apply(table_named(involutions, name), element))],
                 dual |-> BasisElement_dual(element, generator_squares),
                 dual_dual |-> BasisElement_dual(BasisElement_dual(element, generator_squares),
                                                 generator_squares)]
    /\ tpc' = "applied"
    /\ UNCHANGED <<algebraVars, registryVars, simplifierVars, driverVars, parseVars, machineVars>>

NextTables == BuildTables \/ ApplyTables

SpecTables == InitTables /\ [][NextTables]_vars

\* C11: in every algebra, for every basis element x, the tables Reversal,
\* Automorphism and Conjugation applied twice return x: same index, same scalar.
C11_InvolutionsAreInvolutive ==
    tpc = "applied" =>
        \A name \in {"Reversal", "Automorphism", "Conjugation"} :
            applied.twice[name] = table_element

\* an element of grade two or more, which Reversal and Conjugation negate
\* once, has come back from two applications
C11_Witness ==
    /\ tpc = "applied"
    /\ grade(table_element) >= 2
    /\ applied.once["Reversal"].scalar = 0 - table_element.scalar
    /\ applied.once["Automorphism"] = table_element
    /\ applied.twice["Reversal"] = table_element

\* C12 as stated: dual(dual(x)) has the index of x and the scalar of x up to a
\* sign, and that sign is the same for all basis elements of the algebra.
C12_DualTwiceUniformSign ==
    tpc = "applied" =>
        /\ applied.dual_dual.index = table_element.index
        /\ applied.dual_dual.scalar \in {table_element.scalar, 0 - table_element.scalar}
        /\ \A other \in SignedElements(generator_squares) :
              BasisElement_dual(BasisElement_dual(other, generator_squares),
                                generator_squares).scalar * other.scalar
                  = applied.dual_dual.scalar * table_element.scalar

\* C12: dual(dual(x)) has the index of x and the scalar of x up to a sign; with
\* an odd number of generators every element returns to itself, with an even
\* number the elements of even grade return to themselves and the elements
\* of odd grade return negated.
C12_DualTwiceSignByGrade ==
    tpc = "applied" =>
        /\ applied.dual_dual.index = table_element.index
        /\ applied.dual_dual.scalar =
              IF Len(generator_squares) % 2 = 1 \/ grade(table_element) % 2 = 0
              THEN table_element.scalar
              ELSE 0 - table_element.scalar

\* a vector of a two-generator algebra has come back negated
C12_Witness ==
    /\ tpc = "applied"
    /\ Len(generator_squares) = 2
    /\ grade(table_element) = 1
    /\ applied.dual.index = 3 - table_element.index
    /\ applied.dual_dual = [table_element EXCEPT !.scalar = 0 - @]

\* the terms of a table as a set
terms_of(tables, name) ==
    LET terms == table_named(tables, name) IN {terms[k] : k \in 1 .. Len(terms)}

\* C13 as stated: every term of the GeometricProduct table is a term of the
\* OuterProduct table or of the InnerProduct table, and every Outer or Inner
\* term is a Geometric term.
C13_OuterInnerCoverGeometric ==
    tpc = "built" =>
        /\ terms_of(products, "GeometricProduct")
              \subseteq (terms_of(products, "OuterProduct") \cup terms_of(products, "InnerProduct"))
        /\ (terms_of(products, "OuterProduct") \cup terms_of(products, "InnerProduct"))
              \subseteq terms_of(products, "GeometricProduct")

\* C13: a term of the GeometricProduct table is a term of the OuterProduct table
\* or of the InnerProduct table exactly when its factors share no generator or
\* the generators of one factor are all generators of the other (so whenever a
\* factor has grade 0 or 1), and every Outer or Inner term is a Geometric term.
C13_OuterInnerBySharedGenerators ==
    tpc = "built" =>
        /\ \A term \in terms_of(products, "GeometricProduct") :
              (term \in terms_of(products, "OuterProduct") \cup terms_of(products, "InnerProduct"))
                  <=> \/ Generators(term.factor_a) \cap Generators(term.factor_b) = {}
                      \/ Generators(term.factor_a) \subseteq Generators(term.factor_b)
                      \/ Generators(term.factor_b) \subseteq Generators(term.factor_a)
        /\ (terms_of(products, "OuterProduct") \cup terms_of(products, "InnerProduct"))
              \subseteq terms_of(products, "GeometricProduct")

\* three generators: e0 * e1 is an Outer term, e0 * e01 an Inner term, and
\* e01 * e12, a Geometric term of grade 2, is neither
C13_Witness ==
    /\ tpc = "built"
    /\ Len(generator_squares) = 3
    /\ \E term \in terms_of(products, "OuterProduct") :
          term.factor_a.index = 1 /\ term.factor_b.index = 2 /\ term.product.index = 3
    /\ \E term \in terms_of(products, "InnerProduct") :
          term.factor_a.index = 1 /\ term.factor_b.index = 3 /\ term.product.index = 2
    /\ \E term \in terms_of(products, "GeometricProduct") :
          /\ term.factor_a.index = 3 /\ term.factor_b.index = 6 /\ term.product.index = 5
          /\ term \notin terms_of(products, "OuterProduct")
          /\ term \notin terms_of(products, "InnerProduct")

---------------------------------------------------------------------------
(* The parse caller: hands an element name, character by character, to     *)
(* BasisElement::parse.                                                    *)

MaxNameLen == 4

HexLower == <<"0", "1", "2", "3", "4", "5", "6", "7", "8", "9", "a", "b", "c", "d", "e", "f">>
HexUpper == <<"0", "1", "2", "3", "4", "5", "6", "7", "8", "9", "A", "B", "C", "D", "E", "F">>

NoDigit == -1

\* char::to_digit(16): NoDigit stands for None
to_digit(c) ==
    IF \E k \in 1 .. 16 : HexLower[k] = c
    THEN (CHOOSE k \in 1 .. 16 : HexLower[k] = c) - 1
    ELSE IF \E k \in 1 .. 16 : HexUpper[k] = c
    THEN (CHOOSE k \in 1 .. 16 : HexUpper[k] = c) - 1
    ELSE NoDigit

Aborted == [aborted |-> TRUE, element |-> from_index(0)]

Returned(element) == [aborted |-> FALSE, element |-> element]

\* the loop over the characters after the 'e'
RECURSIVE parse_generator_indices(_, _, _)
parse_generator_indices(result, generator_indices, algebra) ==
    IF generator_indices = <<>> THEN Returned(result)
    ELSE LET generator_index == to_digit(Head(generator_indices))
         IN IF generator_index = NoDigit THEN Aborted
            ELSE IF ~(generator_index < Len(algebra)) THEN Aborted
            ELSE parse_generator_indices(
                     BasisElement_product(result, from_index(2 ^ generator_index), algebra),
                     Tail(generator_indices), algebra)

is_one_prefix(name) == name # <<>> /\ Head(name) = "1"

\* name == "1"
is_one(name) == name = <<"1">>

\* BasisElement::parse of a name given as its characters
BasisElement_parse_name(full_name, algebra) ==
    LET negative == full_name # <<>> /\ Head(full_name) = "-"
        name == IF negative THEN Tail(full_name) ELSE full_name
        result == [from_index(0) EXCEPT !.scalar = IF negative THEN -1 ELSE 1]
    IN IF is_one(name) THEN Returned(result)
       ELSE IF name = <<>> THEN Aborted
       ELSE IF Head(name) # "e" THEN Aborted
       ELSE parse_generator_indices(result, Tail(name), algebra)

NameCharacters == {"-", "1", "e", "0", "2", "x"}

ElementNames == UNION {[1 .. n -> NameCharacters] : n \in 0 .. MaxNameLen}

\* the algebras the parse caller draws: one square for all generators
UniformAlgebras ==
    {[i \in 1 .. n |-> square] : n \in 1 .. MaxGenerators, square \in SquareValues}

InitParse ==
    /\ generator_squares \in UniformAlgebras
    /\ el_a = from_index(0) /\ el_b = from_index(0) /\ el_c = from_index(0)
    /\ results = NoResults
    /\ apc = "idle"
    /\ IdleRegistry
    /\ IdleSimplifier
    /\ IdleDriver
    /\ IdleTables
    /\ IdleMachine
    /\ element_name \in ElementNames
    /\ parsed = NoParse
    /\ ppc = "start"

Parse ==
    /\ ppc = "start"
    /\ parsed' = BasisElement_parse_name(element_name, generator_squares)
    /\ ppc' = "done"
    /\ UNCHANGED <<element_name, tableVars, machineVars>>
    /\ UNCHANGED <<algebraVars, registryVars, simplifierVars, driverVars>>

NextParse == Parse

SpecParse == InitParse /\ [][NextParse]_vars

\* the characters that are hexadecimal digits of a generator index below n
SupportedDigits(n) == {HexLower[k] : k \in 1 .. n} \cup {HexUpper[k] : k \in 1 .. n}

\* the name after an optional leading '-'
Unsigned(name) == IF name # <<>> /\ Head(name) = "-" THEN Tail(name) ELSE name

\* C19: parse aborts exactly when the name, after an optional leading '-', is
\* not "1" and does not start with 'e', or some character after the 'e' is not
\* a hexadecimal digit of a generator index below the generator count; for
\* every other name it returns an element.
C19_AbortsOnMalformedNames ==
    ppc = "done" =>
        LET name == Unsigned(element_name)
            starts_with_e == name # <<>> /\ Head(name) = "e"
        IN parsed.aborted <=>
              \/ name # <<"1">> /\ ~starts_with_e
              \/ /\ starts_with_e
                 /\ \E k \in 2 .. Len(name) :
                       name[k] \notin SupportedDigits(Len(generator_squares))

\* -e02 in an algebra of two generators: the generator index 2 is not supported
C19_Witness ==
    /\ ppc = "done"
    /\ Len(generator_squares) = 2
    /\ element_name = <<"-", "e", "0", "2">>
    /\ parsed.aborted

---------------------------------------------------------------------------
(* The gather caller: hands simplify_and_legalize a Gather of a variable,  *)
(* as the synthesiser builds them: as many index pairs as lanes.           *)

MaxGatherLanes == 4

GatherGroups == {0, 1}

InitGather ==
    /\ generator_squares = <<1, 1>>
    /\ IdleAlgebra
    /\ IdleRegistry
    /\ expression = NoExpression
    /\ simplified = NoExpression
    /\ spc = "start"
    /\ IdleDriver
    /\ IdleCallers

\* the caller builds a Gather of k pairs over a variable of k lanes or of one lane
BuildGather ==
    /\ spc = "start"
    /\ \E k \in 2 .. MaxGatherLanes :
          \E indices \in [1 .. k -> GatherGroups \X (0 .. (k - 1))], inner_size \in {k, 1} :
              expression' = Gather(k, Variable(inner_size, "v"), indices)
    /\ spc' = "build"
    /\ UNCHANGED <<simplified, algebraVars, registryVars, driverVars, callerVars>>

NextGather == BuildGather \/ Simplify

SpecGather == InitGather /\ [][NextGather]_vars

\* the component indices of the pairs
Components(indices) == [i \in 1 .. Len(indices) |-> indices[i][2]]

IsPermutation(lanes) ==
    /\ \A i \in 1 .. Len(lanes) : lanes[i] \in 0 .. (Len(lanes) - 1)
    /\ \A i, j \in 1 .. Len(lanes) : lanes[i] = lanes[j] => i = j

\* C20: a Gather of k >= 2 pairs that all address one group g of an inner value
\* of k lanes becomes Access(inner, g) when the lanes are 0, 1, ..., k-1 in
\* order and Swizzle(Access(inner, g), lanes) when they are any other permutation.
C20_GatherBecomesAccessOrSwizzle ==
    (/\ spc = "done"
     /\ expression.tag = "Gather"
     /\ Len(expression.indices) >= 2
     /\ expression.inner.size = Len(expression.indices)
     /\ \A i \in 1 .. Len(expression.indices) :
           expression.indices[i][1] = expression.indices[1][1]
     /\ IsPermutation(Components(expression.indices)))
    => LET k == Len(expression.indices)
           g == expression.indices[1][1]
           lanes == Components(expression.indices)
       IN IF lanes = [i \in 1 .. k |-> i - 1]
          THEN simplified = Access(k, expression.inner, g)
          ELSE simplified = Swizzle(k, Access(k, expression.inner, g), lanes)

\* the reversed four lanes of group 0 have become a swizzle of the access
C20_Witness ==
    /\ spc = "done"
    /\ expression = Gather(4, Variable(4, "v"), << <<0, 3>>, <<0, 2>>, <<0, 1>>, <<0, 0>> >>)
    /\ simplified = Swizzle(4, Access(4, Variable(4, "v"), 0), <<3, 2, 1, 0>>)

---------------------------------------------------------------------------
(* The execution of the body of Powi: the statements run one at a time on  *)
(* the variables, a multivector being the word of its factors, so that the *)
(* geometric product is the concatenation and One the empty word.          *)

MaxExponent == 9

\* the inverse of a word: the inverses of its factors in reverse order
word_inverse(word) ==
    [i \in 1 .. Len(word) |->
        IF word[Len(word) + 1 - i] = "a" THEN "a'" ELSE "a"]

RECURSIVE evaluate(_, _)
evaluate(e, env) ==
    CASE e.tag = "Variable" -> env[e.name]
      [] e.tag = "Constant" -> e.values[1]
      [] e.tag = "Equal" -> evaluate(e.a, env) = evaluate(e.b, env)
      [] e.tag = "LessThan" -> evaluate(e.a, env) < evaluate(e.b, env)
      [] e.tag = "LogicAnd" -> BitAnd(evaluate(e.a, env), evaluate(e.b, env))
      [] e.tag = "BitShiftRight" -> evaluate(e.a, env) \div (2 ^ evaluate(e.b, env))
      [] e.tag = "Select" ->
            IF evaluate(e.condition, env)
            THEN evaluate(e.then_expression, env)
            ELSE evaluate(e.else_expression, env)
      [] e.tag = "InvokeClassMethod" -> <<>>
      [] e.tag = "InvokeInstanceMethod" ->
            IF e.method = "Abs" THEN Abs(evaluate(e.inner, env))
            ELSE IF e.method = "Inverse" THEN word_inverse(evaluate(e.inner, env))
            ELSE evaluate(e.inner, env) \o evaluate(e.arguments[1].expression, env)

PowerClass ==
    [class_name |-> "Rotor", grouped_basis |-> << <<from_index(0), from_index(3)>> >>]

\* an implementation of that name on PowerClass, as the maps of main hold them
Held(name) == TraitImplementation(name, PowerClass, <<Parameter("self", PowerClass)>>, <<>>)

InitPower ==
    /\ generator_squares = <<1, 1>>
    /\ IdleAlgebra
    /\ IdleRegistry
    /\ IdleSimplifier
    /\ IdleDriver
    /\ IdleTables
    /\ IdleParse
    /\ \E exponent \in (0 - MaxExponent) .. MaxExponent :
          machine = [phase |-> "start",
                     env |-> ("self" :> <<"a">>) @@ ("exponent" :> exponent),
                     todo |-> <<>>, value |-> <<>>]

\* main derives Powi; the call of the implementation starts with its whole body
DerivePower ==
    /\ machine.phase = "start"
    /\ machine' = [machine EXCEPT
                      !.phase = "run",
                      !.todo = derive_power_of_integer("Powi", Held("GeometricProduct"),
                                   Held("One"), Held("Inverse"), Parameter("self", PowerClass),
                                   IntegerParameter("exponent")).body]
    /\ UNCHANGED <<algebraVars, registryVars, simplifierVars, driverVars, tableVars, parseVars>>

ExecuteIfThen ==
    /\ machine.phase = "run"
    /\ machine.todo # <<>>
    /\ Head(machine.todo).kind = "IfThenBlock"
    /\ machine' = [machine EXCEPT
                      !.todo = IF evaluate(Head(machine.todo).condition, machine.env)
                               THEN Head(machine.todo).body \o Tail(machine.todo)
                               ELSE Tail(machine.todo)]
    /\ UNCHANGED <<algebraVars, registryVars, simplifierVars, driverVars, tableVars, parseVars>>

ExecuteWhileLoop ==
    /\ machine.phase = "run"
    /\ machine.todo # <<>>
    /\ Head(machine.todo).kind = "WhileLoopBlock"
    /\ machine' = [machine EXCEPT
                      !.todo = IF evaluate(Head(machine.todo).condition, machine.env)
                               THEN Head(machine.todo).body \o machine.todo
                               ELSE Tail(machine.todo)]
    /\ UNCHANGED <<algebraVars, registryVars, simplifierVars, driverVars, tableVars, parseVars>>

ExecuteAssignment ==
    /\ machine.phase = "run"
    /\ machine.todo # <<>>
    /\ Head(machine.todo).kind = "VariableAssignment"
    /\ machine' = [machine EXCEPT
                      !.env = (Head(machine.todo).name
                                  :> evaluate(Head(machine.todo).expression, machine.env)) @@ @,
                      !.todo = Tail(machine.todo)]
    /\ UNCHANGED <<algebraVars, registryVars, simplifierVars, driverVars, tableVars, parseVars>>

ExecuteReturn ==
    /\ machine.phase = "run"
    /\ machine.todo # <<>>
    /\ Head(machine.todo).kind = "ReturnStatement"
    /\ machine' = [machine EXCEPT
                      !.phase = "returned",
                      !.value = evaluate(Head(machine.todo).expression, machine.env),
                      !.todo = <<>>]
    /\ UNCHANGED <<algebraVars, registryVars, simplifierVars, driverVars, tableVars, parseVars>>

NextPower ==
    DerivePower \/ ExecuteIfThen \/ ExecuteWhileLoop \/ ExecuteAssignment \/ ExecuteReturn

SpecPower == InitPower /\ [][NextPower]_vars

\* the generated body runs on one thread: a statement that can run does run
SpecPowerFair == SpecPower /\ WF_vars(NextPower)

\* the word of count factors
Repeated(factor, count) == [i \in 1 .. count |-> factor]

\* C14: the statements of Powi return One for exponent 0, a^n for every
\* exponent n > 0 and Inverse(a)^|n| for every exponent n < 0, the product
\* being associative with identity One; the execution never ends without a value.
C14_PowerOfInteger ==
    /\ machine.phase = "returned" =>
          machine.value =
              IF machine.env["exponent"] >= 0
              THEN Repeated("a", machine.env["exponent"])
              ELSE Repeated("a'", 0 - machine.env["exponent"])
    /\ machine.phase = "run" => machine.todo # <<>>

\* the exponent -5 has returned the five factors Inverse(a), after the loop
\* multiplied y once and squared x twice
C14_Witness ==
    /\ machine.phase = "returned"
    /\ machine.env["exponent"] = -5
    /\ machine.env["n"] = 1
    /\ machine.env["y"] = <<"a'">>
    /\ machine.env["x"] = <<"a'", "a'", "a'", "a'">>
    /\ machine.value = <<"a'", "a'", "a'", "a'", "a'">>

(***************************************************************************)
(* Claims about the derived operations main emits.                         *)
(***************************************************************************)

\* the classes of the parameters of a node
ParameterClasses(node) == [i \in 1 .. Len(node.parameters) |-> node.parameters[i].class]

\* the operation of that name on parameters of those classes is among the
\* first count nodes handed to the emitter
EmittedWithin(count, name, parameter_classes) ==
    \E q \in 1 .. count :
        /\ emitted[q].kind = "TraitImplementation"
        /\ emitted[q].result.name = name
        /\ ParameterClasses(emitted[q]) = parameter_classes

WasSynthesised(name, parameter_classes) ==
    EmittedWithin(Len(emitted), name, parameter_classes)

\* the names of the operations the last iteration of main derived
DerivedNow == {last.derived[i].result.name : i \in 1 .. Len(last.derived)}

\* a single group holding only the scalar basis element
IsScalarClass(class) ==
    /\ Len(class.grouped_basis) = 1
    /\ Len(class.grouped_basis[1]) = 1
    /\ class.grouped_basis[1][1].index = 0
    /\ class.grouped_basis[1][1].scalar = 1

\* C16: in the iteration of main for a class A and the scalar class B, Scale
\* is emitted exactly when GeometricProduct(A, B) was synthesised.
C16_ScaleWithGeometricProduct ==
    (last.kind = "scale" /\ IsScalarClass(last.class_b))
        => ("Scale" \in DerivedNow
                <=> WasSynthesised("GeometricProduct", <<last.class_a, last.class_b>>))

\* Scale was emitted for a class of several elements with the scalar class
C16_Witness ==
    /\ last.kind = "scale"
    /\ IsScalarClass(last.class_b)
    /\ Len(flat_basis(last.class_a)) > 1
    /\ "Scale" \in DerivedNow
    /\ WasSynthesised("GeometricProduct", <<last.class_a, last.class_b>>)

\* the result class of the GeometricProduct emitted for (class_a, class_b)
GeometricProductClass(class_a, class_b) ==
    LET q == CHOOSE q \in 1 .. Len(emitted) :
                 /\ emitted[q].kind = "TraitImplementation"
                 /\ emitted[q].result.name = "GeometricProduct"
                 /\ ParameterClasses(emitted[q]) = <<class_a, class_b>>
    IN emitted[q].result.class

\* A == B and GeometricProduct(A, A) closes on A
ClosesOnItself(class_a, class_b) ==
    /\ class_a = class_b
    /\ GeometricProductClass(class_a, class_a) = class_a

\* C15 as stated: where GeometricProduct(A, B) was synthesised, Powi is emitted
\* for the pair exactly when A == B and the product closes on A.
C15_PowiWhenClosed ==
    (last.kind = "composed"
         /\ WasSynthesised("GeometricProduct", <<last.class_a, last.class_b>>))
        => ("Powi" \in DerivedNow <=> ClosesOnItself(last.class_a, last.class_b))

\* C15 amended: where GeometricProduct(A, B) was synthesised, Powi is emitted
\* for the pair exactly when A == B, the product closes on A, and One and
\* Inverse were synthesised for A.
C15_PowiWhenClosedAndInvertible ==
    (last.kind = "composed"
         /\ WasSynthesised("GeometricProduct", <<last.class_a, last.class_b>>))
        => ("Powi" \in DerivedNow
                <=> /\ ClosesOnItself(last.class_a, last.class_b)
                    /\ \E q \in 1 .. Len(emitted) :
                           /\ emitted[q].kind = "TraitImplementation"
                           /\ emitted[q].result.name = "One"
                           /\ emitted[q].result.class = last.class_a
                    /\ WasSynthesised("Inverse", <<last.class_a>>))

\* Powi was emitted for a class of several elements whose product closes on it
C15_Witness ==
    /\ last.kind = "composed"
    /\ "Powi" \in DerivedNow
    /\ Len(flat_basis(last.class_a)) > 1
    /\ ClosesOnItself(last.class_a, last.class_b)

\* C17: the nodes two runs on one configuration hand to the emitter are the
\* same sequence, whatever order the hash sets of each run iterate in.
C17_RunsEmitTheSame == emitted = emitted_again

\* the indices of a signature in the order a hash set of that seed yields them
YieldedBy(sig, seed) ==
    LET in_order == HashSet_into_iter({from_index(sig[k]) : k \in 1 .. Len(sig)}, seed)
    IN [k \in 1 .. Len(in_order) |-> in_order[k].index]

\* a product was emitted by both runs whose result signature the hash sets of
\* the two runs yield in different orders
C17_Witness ==
    /\ last.kind = "product"
    /\ last.synthesis.node # AstNone
    /\ \E seed, seed_again \in HashSeeds :
           YieldedBy(last.synthesis.signature, seed)
               # YieldedBy(last.synthesis.signature, seed_again)
    /\ Len(emitted) > 50
    /\ emitted = emitted_again

\* an operation a body invokes: its name, the classes it is invoked on and,
\* where the invocation fixes it, the class of its result
Invocation(name, parameter_classes, result_class) ==
    [name |-> name, parameter_classes |-> parameter_classes, result_class |-> result_class]

ClassOfType(data_type) ==
    IF data_type.kind = "MultiVector" THEN data_type.class ELSE NoClass

\* the operation an expression invokes at its root
InvokedAt(e) ==
    CASE e.tag = "InvokeInstanceMethod" /\ e.data_type.kind = "MultiVector" ->
             {Invocation(e.method,
                         <<e.data_type.class>>
                             \o [i \in 1 .. Len(e.arguments) |->
                                    ClassOfType(e.arguments[i].data_type)],
                         NoClass)}
      [] e.tag = "InvokeClassMethod" /\ e.method # "Constructor" ->
             {Invocation(e.method, <<>>, e.class)}
      [] e.tag = "Conversion" ->
             {Invocation("Into", <<e.source_class>>, e.destination_class)}
      [] OTHER -> {}

\* the operations a statement or an expression invokes
RECURSIVE Invocations(_)
Invocations(node) ==
    (IF "tag" \in DOMAIN node THEN InvokedAt(node) ELSE {})
        \cup UNION {Invocations(node[field]) :
                      field \in DOMAIN node \cap {"inner", "a", "b", "condition", "expression",
                                                  "then_expression", "else_expression"}}
        \cup (IF "arguments" \in DOMAIN node
              THEN UNION {Invocations(node.arguments[i].expression) :
                             i \in 1 .. Len(node.arguments)}
              ELSE {})
        \cup (IF "body" \in DOMAIN node
              THEN UNION {Invocations(node.body[i]) : i \in 1 .. Len(node.body)}
              ELSE {})

\* the invoked operation is among the first count nodes handed to the emitter
InvokedWithin(count, invoked) ==
    \E q \in 1 .. count :
        /\ emitted[q].kind = "TraitImplementation"
        /\ emitted[q].result.name = invoked.name
        /\ ParameterClasses(emitted[q]) = invoked.parameter_classes
        /\ invoked.result_class \in {NoClass, emitted[q].result.class}

\* C18: every derived operation is emitted strictly after every operation its
\* body invokes.
C18_DerivedAfterInvoked ==
    last.kind \in {"magnitude", "scale", "composed"}
        => \A i \in 1 .. Len(last.derived) :
               \A invoked \in Invocations(last.derived[i]) :
                   InvokedWithin(last.emitted_before + i - 1, invoked)

(***************************************************************************)
(* Claims about the sign of BasisElement::product, stated on inversions     *)
(***************************************************************************)

\* the pairs (i, j), generator i of a and generator j of b, with i > j
Inversions(a, b) ==
    {pair \in Generators(a) \X Generators(b) : pair[1] > pair[2]}

\* C28: the scalar of product(a, b) is a.scalar * b.scalar * (-1)^k times the
\* squares of the shared generators, k the number of inversions of a's
\* generators followed by b's.
C28_SignIsInversionParity ==
    apc = "done" =>
        results.ab.scalar = el_a.scalar * el_b.scalar * Sign(Cardinality(Inversions(el_a, el_b)))
                              * SquaresOver(Generators(el_a) \cap Generators(el_b),
                                            generator_squares)

\* a product of two blades that share a generator and have an odd number of inversions
C28_Witness ==
    /\ apc = "done"
    /\ Len(generator_squares) = 3
    /\ grade(el_a) = 2 /\ grade(el_b) = 2
    /\ Generators(el_a) \cap Generators(el_b) # {}
    /\ Cardinality(Inversions(el_a, el_b)) % 2 = 1
    /\ results.ab.scalar = - el_a.scalar * el_b.scalar

(***************************************************************************)
(* Claims about the termination of the body of Powi                        *)
(***************************************************************************)

\* n is declared and statements of an iteration of the while loop are still to run
InsideLoop ==
    /\ machine.phase = "run"
    /\ "n" \in DOMAIN machine.env
    /\ \E k \in 2 .. Len(machine.todo) : machine.todo[k].kind = "WhileLoopBlock"

\* the statement to run next is the assignment to n that ends an iteration
AtHalving ==
    /\ InsideLoop
    /\ Head(machine.todo).kind = "VariableAssignment"
    /\ Head(machine.todo).name = "n"

\* the while statement is next and its condition fails
AtLoopExit ==
    /\ machine.phase = "run"
    /\ machine.todo # <<>>
    /\ Head(machine.todo).kind = "WhileLoopBlock"
    /\ ~evaluate(Head(machine.todo).condition, machine.env)

\* C26: inside the loop n is at least 2, every iteration ends with a smaller
\* n, the loop is left with n <= 1, and the body of Powi always returns.
C26_PowerTerminates ==
    /\ [](InsideLoop => machine.env["n"] >= 2)
    /\ [][AtHalving => machine'.env["n"] < machine.env["n"]]_vars
    /\ [](AtLoopExit => machine.env["n"] <= 1)
    /\ <>(machine.phase = "returned")

\* the exponent 8 has returned after three iterations halved n from 8 to 1
C26_Witness ==
    /\ machine.phase = "returned"
    /\ machine.env["exponent"] = 8
    /\ machine.env["n"] = 1
    /\ Len(machine.env["x"]) = 8
    /\ machine.env["y"] = <<>>

(***************************************************************************)
(* Claims about Transformation                                             *)
(***************************************************************************)

\* the maps of main hold an Into from class_c to class_b
IntoHeld(class_c, class_b) ==
    /\ class_c.class_name \in DOMAIN trait_implementations
    /\ class_b.class_name \in DOMAIN trait_implementations[class_c.class_name].pair
    /\ "Into" \in DOMAIN trait_implementations[class_c.class_name]
                             .pair[class_b.class_name].implementations

\* GeometricProduct(class_r, class_a) exists and its result class is class_b
\* or a class an Into leads from to class_b
ChainClosesOn(class_r, class_a, class_b) ==
    /\ WasSynthesised("GeometricProduct", <<class_r, class_a>>)
    /\ \/ GeometricProductClass(class_r, class_a) = class_b
       \/ IntoHeld(GeometricProductClass(class_r, class_a), class_b)

\* C27: where GeometricProduct(A, B) was synthesised with result class R,
\* Transformation(A, B) is emitted exactly when Reversal(A) exists,
\* GeometricProduct(R, A) exists with a result class C, and C is B or an Into
\* from C to B exists.
C27_TransformationWhenChainCloses ==
    (last.kind = "composed"
         /\ WasSynthesised("GeometricProduct", <<last.class_a, last.class_b>>))
        => ("Transformation" \in DerivedNow
                <=> /\ WasSynthesised("Reversal", <<last.class_a>>)
                    /\ ChainClosesOn(GeometricProductClass(last.class_a, last.class_b),
                                     last.class_a, last.class_b))

(***************************************************************************)
(* Claims about Into                                                       *)
(***************************************************************************)

IntoCall == last.kind = "into"

\* the declared sign of the element of `class` with the basis index `index`
DeclaredSign(class, index) ==
    LET flat == flat_basis(class)
    IN flat[Position(flat, LAMBDA el : el.index = index)].scalar

\* the value the operand `name` of class `class` holds for the basis index `index`
OperandLane(class, name, index, env) ==
    LET flat == flat_basis(class)
        pair == index_in_group(class, Position(flat, LAMBDA el : el.index = index) - 1)
    IN env[name][pair[1] + 1][pair[2] + 1]

\* one operand with every lane set to a value of its own
IntoEnv(class_a) ==
    Env(class_a, [i \in 1 .. Len(flat_basis(class_a)) |-> i + 1], class_a, <<>>)

\* C23: for distinct classes A and B, Into from A to B is produced exactly when
\* every basis index of B occurs in A; its result class is the class registered
\* under B's signature; and the result lane holding index i is A's lane for i
\* times the declared sign of i in A times the declared sign of i in B.
C23_IntoProjectsWithSigns ==
    IntoCall =>
        /\ last.synthesis.node # AstNone
              <=> IndicesOf(last.class_b) \subseteq IndicesOf(last.class_a)
        /\ last.synthesis.node # AstNone =>
              /\ last.synthesis.node.result.class
                     = registry_get(classes, index_by_signature, signature(last.class_b))
              /\ \A index \in IndicesOf(last.synthesis.node.result.class) :
                     LaneOfIndex(last.synthesis.node, index, IntoEnv(last.class_a))
                         = OperandLane(last.class_a, "self", index, IntoEnv(last.class_a))
                               * DeclaredSign(last.class_a, index)
                               * DeclaredSign(last.class_b, index)

(***************************************************************************)
(* Claims about the contraction of a product                               *)
(***************************************************************************)

\* the lanes of a contraction term that a folded column has filled
FoldedLanes(t) == {i \in 1 .. Len(t.b.values) : t.b.values[i] # 0}

\* the lanes a contraction holds were all gathered from one group of A and from
\* one group of B
WithinOneGroup(t) ==
    \A i, j \in FoldedLanes(t) :
        /\ TermLane(t, i).a[1] = TermLane(t, j).a[1]
        /\ TermLane(t, i).b[1] = TermLane(t, j).b[1]

\* C21: in every result group of a product the columns folded into the
\* contraction all have their A lane in one group of A and their non-zero B lanes
\* in one group of B, the groups of the first folded column; a column of another
\* group is never folded.
C21_ContractionWithinOneGroup ==
    ProductCall =>
        \A g \in 1 .. Len(last.synthesis.raw) :
            LET terms == AddTerms(last.synthesis.raw[g])
            IN \A k \in 1 .. Len(terms) :
                   IsContractionTerm(terms[k]) => WithinOneGroup(terms[k])

(***************************************************************************)
(* Claims about Add and Sub                                                *)
(***************************************************************************)

SumCall == last.kind = "sum"

\* a registered class holds exactly the basis indices of both operands
UnionRegistered ==
    \E k \in 1 .. Len(classes) :
        IndicesOf(classes[k]) = IndicesOf(last.class_a) \cup IndicesOf(last.class_b)

\* the coefficient an operand contributes to e_index: its lane times its declared
\* sign, 0 where the operand has no such element
Contribution(class, name, index, env) ==
    IF index \in IndicesOf(class)
    THEN DeclaredSign(class, index) * OperandLane(class, name, index, env)
    ELSE 0

\* the lane of the result class that holds r * e_index
ExpectedSumLane(index, env) ==
    LET a == Contribution(last.class_a, "self", index, env)
        b == Contribution(last.class_b, "other", index, env)
    IN DeclaredSign(last.synthesis.node.result.class, index)
           * (IF last.name = "Add" THEN a + b ELSE a - b)

\* C22: Add and Sub yield an implementation exactly when a class whose signature
\* is the union of the operands' indices is registered, and each lane of it that
\* holds r * e_i evaluates to r * (sa * a_i + sb * b_i), or with a minus for
\* Sub, an absent operand contributing 0.
C22_SumOverUnion ==
    SumCall =>
        /\ last.synthesis.node # AstNone <=> UnionRegistered
        /\ last.synthesis.node # AstNone =>
              \A env \in ProductEnvs(last.class_a, last.class_b) :
                  \A index \in IndicesOf(last.synthesis.node.result.class) :
                      LaneOfIndex(last.synthesis.node, index, env) = ExpectedSumLane(index, env)

(***************************************************************************)
(* Claims about simplify_and_legalize                                      *)
(***************************************************************************)

\* C24: simplify_and_legalize is idempotent: applied to its own result it
\* returns that result unchanged.
C24_SimplifyIdempotent ==
    spc = "done" => simplify_and_legalize(simplified) = simplified

\* a call of constant, involution, element_wise or product that yielded a body
SynthesiserCall ==
    /\ last.kind \in {"constant", "involution", "into", "sum", "product"}
    /\ last.synthesis.node # AstNone

\* the Gather nodes of an expression, at any depth
RECURSIVE GathersIn(_)
GathersIn(e) ==
    IF e.tag \in BinaryTags THEN GathersIn(e.a) \cup GathersIn(e.b)
    ELSE IF e.tag = "Gather" THEN {e} \cup GathersIn(e.inner)
    ELSE IF e.tag \in {"Access", "Swizzle"} THEN GathersIn(e.inner)
    ELSE {}

\* the Gather nodes of the body the last call yielded
GathersOfBody ==
    UNION {GathersIn(last.synthesis.node.body[g].expression) :
              g \in 1 .. Len(last.synthesis.node.body)}

\* C25 as stated: in every simplified expression of the synthesiser each Gather's
\* size equals the number of its pairs
C25_GatherSizeIsPairs ==
    SynthesiserCall => \A e \in GathersOfBody : e.size = Len(e.indices)

\* C25 amended: each Gather's size equals the number of its pairs, or the Gather
\* holds one pair only, the pair all its lanes had
C25_GatherSizeIsPairsOrOne ==
    SynthesiserCall =>
        \A e \in GathersOfBody : e.size = Len(e.indices) \/ Len(e.indices) = 1

\* a body with a Gather of three lanes and one pair and a Gather of three pairs
C25_Witness ==
    /\ SynthesiserCall
    /\ \E e \in GathersOfBody : e.size = 3 /\ Len(e.indices) = 1
    /\ \E e \in GathersOfBody : e.size = 3 /\ Len(e.indices) = 3

\* the expression holds a None node, at any depth
RECURSIVE NoneIn(_)
NoneIn(e) ==
    IF e.tag = "None" THEN TRUE
    ELSE IF e.tag \in BinaryTags THEN NoneIn(e.a) \/ NoneIn(e.b)
    ELSE IF e.tag \in {"Gather", "Access", "Swizzle"} THEN NoneIn(e.inner)
    ELSE FALSE

\* every basis element of every registered class has the scalar 1 or -1
UnitScalars ==
    \A k \in 1 .. Len(classes) :
        \A i \in 1 .. Len(flat_basis(classes[k])) : flat_basis(classes[k])[i].scalar \in {1, -1}

\* C30: with classes whose elements all have scalar 1 or -1, no expression of an
\* implementation that constant, involution, element_wise or product yields
\* holds a None node at any depth.
C30_NoNoneAfterSimplification ==
    (SynthesiserCall /\ UnitScalars) =>
        \A g \in 1 .. Len(last.synthesis.node.body) :
            ~NoneIn(last.synthesis.node.body[g].expression)

\* a product whose group was built on a None node that the simplifier removed
C30_Witness ==
    /\ ProductCall /\ SynthesiserCall /\ UnitScalars
    /\ \E g \in 1 .. Len(last.synthesis.raw) :
          /\ NoneIn(last.synthesis.raw[g])
          /\ ~NoneIn(last.synthesis.node.body[g].expression)

(***************************************************************************)
(* Claims about the coefficients of GeometricProduct                       *)
(***************************************************************************)

GeometricProductCall == ProductCall /\ last.name = "GeometricProduct"

\* the product of the declared elements of lane x of A and lane j of B (from 1)
DeclaredProduct(x, j) ==
    BasisElement_product(flat_basis(last.class_a)[x], flat_basis(last.class_b)[j],
                         generator_squares)

\* the entry of row y and column x is the product of lane x of A and the lane of
\* B it names, expressed in the signed element lane y of the result declares
EntryIsProduct(y, x) ==
    LET entry == last.synthesis.sorted_terms[y][x]
        result_element == flat_basis(last.synthesis.result_class)[y]
        product == DeclaredProduct(x, entry.index_in_b + 1)
    IN /\ product.index = result_element.index
       /\ product.scalar = entry.factor * result_element.scalar

\* C29: for GeometricProduct with a registered result class R every non-zero
\* entry M[y][x] = (c, j) satisfies product(A[x], B[j]) = c * R[y] on the
\* declared signed elements, whatever signs basis() gave the canonical elements;
\* and every pair (x, j) with a non-zero product has such an entry.
C29_EntriesAreDeclaredProducts ==
    GeometricProductCall =>
        LET width == Len(flat_basis(last.class_a))
            height == Len(flat_basis(last.synthesis.result_class))
        IN /\ \A y \in 1 .. height, x \in 1 .. width :
                  last.synthesis.sorted_terms[y][x].factor # 0 => EntryIsProduct(y, x)
           /\ \A x \in 1 .. width, j \in 1 .. Len(flat_basis(last.class_b)) :
                  DeclaredProduct(x, j).scalar # 0 =>
                      \E y \in 1 .. height :
                          /\ last.synthesis.sorted_terms[y][x].factor # 0
                          /\ last.synthesis.sorted_terms[y][x].index_in_b = j - 1

\* a GeometricProduct with a non-zero entry whose lane of A is an element that
\* basis() gave the scalar -1 and that the class declares with the scalar 1
C29_Witness ==
    /\ GeometricProductCall
    /\ \E x \in 1 .. Len(flat_basis(last.class_a)) :
          /\ flat_basis(last.class_a)[x].scalar = 1
          /\ basis(generator_squares)[flat_basis(last.class_a)[x].index + 1].scalar = -1
          /\ \E y \in 1 .. Len(flat_basis(last.synthesis.result_class)) :
                 last.synthesis.sorted_terms[y][x].factor # 0

====
